---------------------------- MODULE Spec2Model ----------------------------
(* Model of the administration backend's mutation services:                *)
(*   department-actions.ts   (src/unnamed/part_003)                        *)
(*   user-actions.ts         (src/src/lib/actions/user-actions.ts)         *)
(*   organization-actions.ts (src/unnamed/part_005)                        *)
(* over the relational store of prisma/migrations/.../migration.sql.       *)
(*                                                                         *)
(* Every service method is an operator  Op(d, args)  that takes the store  *)
(* d and returns  [db |-> store after, result |-> ActionResult];  an       *)
(* action applies it to the store.  Scalars (ids, enum values) are         *)
(* strings, texts (names, e-mails, slugs, passwords) are sequences of      *)
(* one-character strings, so that trim, toLowerCase and the regular        *)
(* expressions are computed and not assumed.                               *)
EXTENDS Integers, Sequences, FiniteSets, TLC

VARIABLES
    db,        \* the store: one field per table
    pre,       \* the store as it was when the last request started
    call,      \* the last request served: [op |-> ..., ...arguments]
    result,    \* the ActionResult the last request returned
    proc,      \* concurrent requests in flight (updateDepartment, step by step)
    chain,     \* a ValidationHandler chain under construction / running
    revalidated \* the paths the last request passed to revalidatePath, in order

vars == <<db, pre, call, result, proc, chain, revalidated>>

-----------------------------------------------------------------------------
(* Bounds *)

MaxDept == 3
MaxUser == 3
MaxOrg == 2
MaxClock == 1
MaxChain == 3

-----------------------------------------------------------------------------
(* Values *)

NULL == "null"            \* JS null / SQL NULL, for ids and enum values
UNDEF == "undefined"      \* JS undefined or a key that is absent
EMPTY == ""               \* the empty string given as an id

NullT == <<"null">>       \* null, where a text is expected
UndefT == <<"undefined">> \* undefined, where a text is expected
AbsentT == <<"absent">>   \* the key is not in the object ("k" in o is false)

DeptIds == <<"d1", "d2", "d3", "d4", "d5">>
UserIds == <<"u1", "u2", "u3", "u4", "u5">>
OrgIds == <<"o1", "o2", "o3", "o4">>

DeptId == {DeptIds[i] : i \in 1..MaxDept}
UserId == {UserIds[i] : i \in 1..MaxUser}
OrgId == {OrgIds[i] : i \in 1..MaxOrg}

\* An id that names no row of any table.
GHOST == "ghost"

\* JS truthiness of an id-valued field: null, undefined and "" are falsy.
Falsy(v) == v \in {NULL, UNDEF, EMPTY}

\* What ?? replaces: null and undefined.
Nullish(v) == v \in {NULL, UNDEF}

\* JS truthiness of a text-valued field.
FalsyT(t) == t \in {NullT, UndefT, AbsentT, <<>>}

IsText(t) == t \notin {NullT, UndefT, AbsentT}

WhiteSpace == {" ", "\t"}

\* String.prototype.trim: strips white space at both ends.
RECURSIVE TrimLeft(_)
TrimLeft(s) ==
    IF s # <<>> /\ Head(s) \in WhiteSpace THEN TrimLeft(Tail(s)) ELSE s

RECURSIVE TrimRight(_)
TrimRight(s) ==
    IF s # <<>> /\ s[Len(s)] \in WhiteSpace
    THEN TrimRight(SubSeq(s, 1, Len(s) - 1))
    ELSE s

Trim(s) == TrimRight(TrimLeft(s))

UpperLetters ==
    <<"A", "B", "C", "D", "E", "F", "G", "H", "I", "J", "K", "L", "M",
      "N", "O", "P", "Q", "R", "S", "T", "U", "V", "W", "X", "Y", "Z">>
LowerLetters ==
    <<"a", "b", "c", "d", "e", "f", "g", "h", "i", "j", "k", "l", "m",
      "n", "o", "p", "q", "r", "s", "t", "u", "v", "w", "x", "y", "z">>

UpperCase == {UpperLetters[i] : i \in DOMAIN UpperLetters}
LowerCase == {LowerLetters[i] : i \in DOMAIN LowerLetters}
Digit == {"0", "1", "2", "3", "4", "5", "6", "7", "8", "9"}

\* String.prototype.toLowerCase, character by character.
LowerOf(c) ==
    IF c \in UpperCase
    THEN LowerLetters[CHOOSE i \in DOMAIN UpperLetters : UpperLetters[i] = c]
    ELSE c

ToLowerCase(s) == [i \in 1..Len(s) |-> LowerOf(s[i])]

\* ActionResult values.
Ok == [success |-> TRUE, code |-> UNDEF]
Fail(c) == [success |-> FALSE, code |-> c]

Out(d, r) == [db |-> d, result |-> r, revalidated |-> <<>>]

\* revalidatePath(path) of next/cache, called by a request that ends as out
Revalidate(path, out) == [out EXCEPT !.revalidated = Append(@, path)]

DepartmentsPath == "/dashboard/admin/departments"
UsersPath == "/dashboard/admin/users"
OrganizationsPath == "/dashboard/admin/organizations"

\* A function without the keys in ks.
Without(f, ks) == [k \in DOMAIN f \ ks |-> f[k]]

\* A function with key k (new or not) set to v.
With(f, k, v) == [x \in DOMAIN f \cup {k} |-> IF x = k THEN v ELSE f[x]]

EmptyTable == [k \in {} |-> k]

EmptyDb ==
    [department |-> EmptyTable,
     user |-> EmptyTable,
     account |-> {},
     organization |-> EmptyTable,
     organizationMember |-> EmptyTable,
     organizationInvitation |-> EmptyTable]

-----------------------------------------------------------------------------
(* The store's referential actions (migration.sql)                          *)

\* department_parentId_fkey and user_departmentId_fkey, ON DELETE SET NULL:
\* the store after the department row id is deleted.
DeleteDepartmentRow(d, id) ==
    [d EXCEPT
        !.department =
            [k \in DOMAIN d.department \ {id} |->
                IF d.department[k].parentId = id
                THEN [d.department[k] EXCEPT !.parentId = NULL]
                ELSE d.department[k]],
        !.user =
            [u \in DOMAIN d.user |->
                IF d.user[u].departmentId = id
                THEN [d.user[u] EXCEPT !.departmentId = NULL]
                ELSE d.user[u]]]

\* user_managerId_fkey (SET NULL) and the userId / inviterId foreign keys of
\* account, organization_member and organization_invitation (CASCADE): the
\* store after the user row id is deleted.
DeleteUserRow(d, id) ==
    [d EXCEPT
        !.user =
            [u \in DOMAIN d.user \ {id} |->
                IF d.user[u].managerId = id
                THEN [d.user[u] EXCEPT !.managerId = NULL]
                ELSE d.user[u]],
        !.account = d.account \ {id},
        !.organizationMember =
            [k \in {m \in DOMAIN d.organizationMember : m[2] # id} |->
                d.organizationMember[k]],
        !.organizationInvitation =
            [k \in {i \in DOMAIN d.organizationInvitation :
                        d.organizationInvitation[i].inviterId # id} |->
                d.organizationInvitation[k]]]

\* organization_member_organizationId_fkey and
\* organization_invitation_organizationId_fkey (CASCADE): the store after the
\* organization row id is deleted.
DeleteOrganizationRow(d, id) ==
    [d EXCEPT
        !.organization = Without(d.organization, {id}),
        !.organizationMember =
            [k \in {m \in DOMAIN d.organizationMember : m[1] # id} |->
                d.organizationMember[k]],
        !.organizationInvitation =
            [k \in {i \in DOMAIN d.organizationInvitation : i[1] # id} |->
                d.organizationInvitation[k]]]

\* TRUE iff following the references parentOf (id -> referenced id) upward
\* from `from` reaches `to` in at least one and at most n hops.
RECURSIVE ReachesVia(_, _, _, _)
ReachesVia(parentOf, from, to, n) ==
    IF n = 0 \/ from \notin DOMAIN parentOf THEN FALSE
    ELSE LET p == parentOf[from]
         IN  p = to \/ ReachesVia(parentOf, p, to, n - 1)

DeptParentOf(d) == [k \in DOMAIN d.department |-> d.department[k].parentId]

UserManagerOf(d) == [k \in DOMAIN d.user |-> d.user[k].managerId]

\* No row is its own ancestor.
AcyclicMap(parentOf) ==
    \A k \in DOMAIN parentOf :
        ~ReachesVia(parentOf, k, k, Cardinality(DOMAIN parentOf))

\* x is a transitive descendant of a (a is a transitive ancestor of x).
IsDescendant(parentOf, x, a) ==
    ReachesVia(parentOf, x, a, Cardinality(DOMAIN parentOf))

-----------------------------------------------------------------------------
(* department-actions.ts                                                    *)

\* CircularHierarchyValidationStrategy.validate: the ancestor walk.  The
\* loop's state is (currentParentId, visitedIds); a row that is not found
\* reads as parentId null (parentDept?.parentId ?? null).
RECURSIVE DeptWalk(_, _, _)
DeptWalk(d, currentParentId, visitedIds) ==
    IF Falsy(currentParentId) THEN Ok
    ELSE IF currentParentId \in visitedIds THEN Fail("CIRCULAR_HIERARCHY")
    ELSE DeptWalk(d,
                  IF currentParentId \in DOMAIN d.department
                  THEN d.department[currentParentId].parentId
                  ELSE NULL,
                  visitedIds \cup {currentParentId})

\* (a bug the acyclicity claims must detect: the visited set not seeded
\* with the department being moved)
CircularHierarchyValidate_Unseeded(d, departmentId, parentId) ==
    DeptWalk(d, parentId, {})

CircularHierarchyValidate(d, departmentId, parentId) ==
    DeptWalk(d, parentId, {departmentId})

\* (a bug the dangling-reference claim must detect: the parent is not
\* looked up, so a missing parent is left to the store to refuse)
ParentExistenceValidate_NoLookup(d, parentId) ==
    Ok

\* ParentExistenceValidationStrategy.validate
ParentExistenceValidate(d, parentId) ==
    IF parentId \in DOMAIN d.department THEN Ok ELSE Fail("PARENT_NOT_FOUND")

\* (a bug the partial-update claim on names must detect: the test without
\* "name" in data, so an update that carries no name is refused)
RequiredNameValidate_NoInTest(dto) ==
    IF FalsyT(dto.name) \/ Trim(dto.name) = <<>>
    THEN Fail("REQUIRED_NAME")
    ELSE Ok

\* RequiredNameHandler.validate
RequiredNameValidate(dto) ==
    IF dto.name # AbsentT /\ (FalsyT(dto.name) \/ Trim(dto.name) = <<>>)
    THEN Fail("REQUIRED_NAME")
    ELSE Ok

\* ParentExistenceHandler.validate
ParentExistenceHandlerValidate(d, dto) ==
    IF Falsy(dto.parentId) THEN Ok ELSE ParentExistenceValidate(d, dto.parentId)

\* CircularHierarchyHandler.validate
CircularHierarchyHandlerValidate(d, dto) ==
    IF Falsy(dto.parentId) THEN Ok
    ELSE CircularHierarchyValidate(d, dto.id, dto.parentId)

\* The validate method of each department handler class, by class name.
DeptHandlerValidate(h, d, dto) ==
    CASE h = "RequiredNameHandler" -> RequiredNameValidate(dto)
      [] h = "ParentExistenceHandler" -> ParentExistenceHandlerValidate(d, dto)
      [] h = "CircularHierarchyHandler" -> CircularHierarchyHandlerValidate(d, dto)

\* ValidationHandler.handle on the chain hs (the handlers in the order
\* setNext linked them): the first failure is returned, the rest not run.
RECURSIVE DeptHandle(_, _, _)
DeptHandle(hs, d, dto) ==
    LET r == DeptHandlerValidate(Head(hs), d, dto)
    IN  IF ~r.success THEN r
        ELSE IF Len(hs) > 1 THEN DeptHandle(Tail(hs), d, dto)
        ELSE Ok

\* A parentId the store accepts in a department row.
DeptParentRefOk(d, p) == p = NULL \/ p \in DOMAIN d.department

\* DepartmentRepository.create (db.department.create under its id newId);
\* [threw |-> TRUE] when the store rejects the row.
DepartmentRepositoryCreate(d, dto, newId) ==
    LET row == [name |-> dto.name,
                description |-> IF dto.description \in {UndefT, AbsentT, NullT}
                                THEN NullT ELSE dto.description,
                parentId |-> IF Nullish(dto.parentId) THEN NULL ELSE dto.parentId]
    IN  IF ~IsText(row.name) \/ ~DeptParentRefOk(d, row.parentId)
        THEN [threw |-> TRUE, db |-> d]
        ELSE [threw |-> FALSE,
              db |-> [d EXCEPT !.department = With(d.department, newId, row)]]

\* (a bug the partial-update claim must detect: an absent description is
\* written as null, as create does with ?? null)
DepartmentRepositoryUpdate_NullsAbsent(d, id, data) ==
    IF id \notin DOMAIN d.department THEN [threw |-> TRUE, db |-> d]
    ELSE
    LET old == d.department[id]
        row == [name |-> IF data.name \notin {UndefT, AbsentT}
                         THEN data.name ELSE old.name,
                description |-> IF data.description \notin {UndefT, AbsentT}
                                THEN data.description ELSE NullT,
                parentId |-> IF data.parentId # UNDEF
                             THEN data.parentId ELSE old.parentId]
    IN  IF ~IsText(row.name) \/ ~DeptParentRefOk(d, row.parentId)
        THEN [threw |-> TRUE, db |-> d]
        ELSE [threw |-> FALSE,
              db |-> [d EXCEPT !.department = With(d.department, id, row)]]

\* DepartmentRepository.update (db.department.update where id)
DepartmentRepositoryUpdate(d, id, data) ==
    IF id \notin DOMAIN d.department THEN [threw |-> TRUE, db |-> d]
    ELSE
    LET old == d.department[id]
        row == [name |-> IF data.name \notin {UndefT, AbsentT}
                         THEN data.name ELSE old.name,
                description |-> IF data.description \notin {UndefT, AbsentT}
                                THEN data.description ELSE old.description,
                parentId |-> IF data.parentId # UNDEF
                             THEN data.parentId ELSE old.parentId]
    IN  IF ~IsText(row.name) \/ ~DeptParentRefOk(d, row.parentId)
        THEN [threw |-> TRUE, db |-> d]
        ELSE [threw |-> FALSE,
              db |-> [d EXCEPT !.department = With(d.department, id, row)]]

\* DepartmentService.createDepartment
CreateDepartmentOp(d, dto, newId) ==
    LET v == DeptHandle(<<"RequiredNameHandler", "ParentExistenceHandler">>, d, dto)
    IN  IF ~v.success THEN Out(d, v)
        ELSE LET w == DepartmentRepositoryCreate(d, dto, newId)
             IN  IF w.threw THEN Out(d, Fail("CREATE_ERROR"))
                 ELSE Revalidate(DepartmentsPath, Out(w.db, Ok))

\* (a bug the rejection claim must detect: updateDepartment assembled with
\* createDepartment's chain, without the circular-hierarchy stage)
UpdateDepartmentOp_CreateChain(d, dto) ==
    LET v == DeptHandle(<<"RequiredNameHandler", "ParentExistenceHandler">>, d, dto)
    IN  IF ~v.success THEN Out(d, v)
        ELSE LET w == DepartmentRepositoryUpdate(d, dto.id, dto)
             IN  IF w.threw THEN Out(d, Fail("UPDATE_ERROR"))
                 ELSE Revalidate(DepartmentsPath, Out(w.db, Ok))

\* (a bug the cache-invalidation claim must detect: revalidatePath called
\* at the top of the try, so a rejected request fires it too)
UpdateDepartmentOp_RevalidateFirst(d, dto) ==
    LET v == DeptHandle(<<"RequiredNameHandler", "ParentExistenceHandler",
                          "CircularHierarchyHandler">>, d, dto)
    IN  IF ~v.success THEN Revalidate(DepartmentsPath, Out(d, v))
        ELSE LET w == DepartmentRepositoryUpdate(d, dto.id, dto)
             IN  IF w.threw THEN Revalidate(DepartmentsPath, Out(d, Fail("UPDATE_ERROR")))
                 ELSE Revalidate(DepartmentsPath, Out(w.db, Ok))

\* DepartmentService.updateDepartment
UpdateDepartmentOp(d, dto) ==
    LET v == DeptHandle(<<"RequiredNameHandler", "ParentExistenceHandler",
                          "CircularHierarchyHandler">>, d, dto)
    IN  IF ~v.success THEN Out(d, v)
        ELSE LET w == DepartmentRepositoryUpdate(d, dto.id, dto)
             IN  IF w.threw THEN Out(d, Fail("UPDATE_ERROR"))
                 ELSE Revalidate(DepartmentsPath, Out(w.db, Ok))

\* (a bug the deletion-guard claim must detect: the assigned-users test is
\* missing, so the delete goes through and the store nulls the references)
DeleteDepartmentOp_NoUsersTest(d, id) ==
    IF id \notin DOMAIN d.department THEN Out(d, Fail("NOT_FOUND"))
    ELSE IF \E k \in DOMAIN d.department : d.department[k].parentId = id
    THEN Out(d, Fail("HAS_CHILDREN"))
    ELSE Revalidate(DepartmentsPath, Out(DeleteDepartmentRow(d, id), Ok))

\* DepartmentService.deleteDepartment
DeleteDepartmentOp(d, id) ==
    IF id \notin DOMAIN d.department THEN Out(d, Fail("NOT_FOUND"))
    ELSE IF \E u \in DOMAIN d.user : d.user[u].departmentId = id
    THEN Out(d, Fail("HAS_USERS"))
    ELSE IF \E k \in DOMAIN d.department : d.department[k].parentId = id
    THEN Out(d, Fail("HAS_CHILDREN"))
    ELSE Revalidate(DepartmentsPath, Out(DeleteDepartmentRow(d, id), Ok))


-----------------------------------------------------------------------------
(* user-actions.ts                                                          *)

MinPasswordLength == 8

\* A character that [^\s@] matches.
NoSpaceNoAt(c) == c \notin WhiteSpace \cup {"@"}

\* /^[^\s@]+@[^\s@]+\.[^\s@]+$/.test(s)
EmailRegexTest(s) ==
    \E i, j \in 1..Len(s) :
        /\ 1 < i /\ i + 1 < j /\ j < Len(s)
        /\ s[i] = "@" /\ s[j] = "."
        /\ \A k \in 1..Len(s) : k \notin {i, j} => NoSpaceNoAt(s[k])

\* UserDataFactory.prepareCreateData
PrepareCreateUserData(dto) ==
    [role |-> IF Nullish(dto.role) THEN "USER" ELSE dto.role,
     status |-> IF Nullish(dto.status) THEN "ACTIVE" ELSE dto.status,
     departmentId |-> IF Nullish(dto.departmentId) THEN NULL ELSE dto.departmentId,
     managerId |-> IF Nullish(dto.managerId) THEN NULL ELSE dto.managerId,
     banned |-> "false",
     banReason |-> NullT,
     banExpires |-> NULL]

UserScalarFields == {"role", "status", "departmentId", "managerId", "banned",
                     "banExpires"}
UserTextFields == {"name", "email", "banReason"}

\* UserDataFactory.prepareUpdateData: the fields of the DTO that are defined.
PrepareUpdateUserData(dto) ==
    {f \in UserScalarFields : dto[f] # UNDEF}
        \cup {f \in UserTextFields : dto[f] \notin {UndefT, AbsentT}}

\* EmailValidationStrategy.validate
EmailValidate(d, email) ==
    IF ~EmailRegexTest(email) THEN Fail("INVALID_EMAIL")
    ELSE IF \E u \in DOMAIN d.user : d.user[u].email = ToLowerCase(email)
    THEN Fail("EMAIL_EXISTS")
    ELSE Ok

\* HierarchyValidationStrategy.checkCircularReference: the manager walk; a
\* row that is not found ends it (break).
RECURSIVE CheckCircularReferenceWalk(_, _, _)
CheckCircularReferenceWalk(d, currentManagerId, visitedIds) ==
    IF Falsy(currentManagerId) THEN FALSE
    ELSE IF currentManagerId \in visitedIds THEN TRUE
    ELSE IF currentManagerId \notin DOMAIN d.user THEN FALSE
    ELSE CheckCircularReferenceWalk(d, d.user[currentManagerId].managerId,
                                    visitedIds \cup {currentManagerId})

\* (a bug the cycle-detector claim must detect: the visited set not seeded
\* with the user being moved)
CheckCircularReference_Unseeded(d, userId, managerId) ==
    CheckCircularReferenceWalk(d, managerId, {})

CheckCircularReference(d, userId, managerId) ==
    CheckCircularReferenceWalk(d, managerId, {userId})

\* (a bug the reporting-line claims must detect: only the direct manager of
\* the proposed manager is looked at, the walk does not go on)
HierarchyValidate_OneHop(d, userId, managerId) ==
    IF Falsy(managerId) THEN Ok
    ELSE IF userId = managerId THEN Fail("CIRCULAR_REFERENCE")
    ELSE IF managerId \in DOMAIN d.user /\ d.user[managerId].managerId = userId
    THEN Fail("CIRCULAR_HIERARCHY")
    ELSE Ok

\* (a bug the rejection claim must detect: no test of userId === managerId
\* before the walk, which then reports the self-reference itself)
HierarchyValidate_NoSelfTest(d, userId, managerId) ==
    IF Falsy(managerId) THEN Ok
    ELSE IF CheckCircularReference(d, userId, managerId)
    THEN Fail("CIRCULAR_HIERARCHY")
    ELSE Ok

\* HierarchyValidationStrategy.validate
HierarchyValidate(d, userId, managerId) ==
    IF Falsy(managerId) THEN Ok
    ELSE IF userId = managerId THEN Fail("CIRCULAR_REFERENCE")
    ELSE IF CheckCircularReference(d, userId, managerId)
    THEN Fail("CIRCULAR_HIERARCHY")
    ELSE Ok

\* PasswordValidationStrategy.validate
PasswordValidate(password) ==
    IF FalsyT(password) THEN Fail("REQUIRED_PASSWORD")
    ELSE IF Len(password) < MinPasswordLength THEN Fail("PASSWORD_TOO_SHORT")
    ELSE IF \/ ~\E i \in 1..Len(password) : password[i] \in UpperCase
            \/ ~\E i \in 1..Len(password) : password[i] \in LowerCase
            \/ ~\E i \in 1..Len(password) : password[i] \in Digit
    THEN Fail("PASSWORD_WEAK")
    ELSE Ok

\* RequiredFieldsHandler.validate (user)
UserRequiredFieldsValidate(dto) ==
    IF FalsyT(dto.name) \/ Trim(dto.name) = <<>> THEN Fail("REQUIRED_NAME")
    ELSE IF FalsyT(dto.email) \/ Trim(dto.email) = <<>> THEN Fail("REQUIRED_EMAIL")
    ELSE Ok

\* The validate method of each user handler class, by class name.
UserHandlerValidate(h, d, dto) ==
    CASE h = "RequiredFieldsHandler" -> UserRequiredFieldsValidate(dto)
      [] h = "EmailValidationHandler" -> EmailValidate(d, dto.email)
      [] h = "PasswordValidationHandler" -> PasswordValidate(dto.password)
      [] h = "HierarchyValidationHandler" -> HierarchyValidate(d, dto.id, dto.managerId)

\* ValidationHandler.handle (user-actions.ts) on the chain hs.
RECURSIVE UserHandle(_, _, _)
UserHandle(hs, d, dto) ==
    LET r == UserHandlerValidate(Head(hs), d, dto)
    IN  IF ~r.success THEN r
        ELSE IF Len(hs) > 1 THEN UserHandle(Tail(hs), d, dto)
        ELSE Ok

UserRoles == {"SUPER_ADMIN", "ADMIN", "MANAGER", "SUPERVISOR", "USER"}
UserStatuses == {"ACTIVE", "INACTIVE", "SUSPENDED"}

\* A user row the store accepts: NOT NULL columns, enum values, the unique
\* index on email (exact match) and the two foreign keys.
UserRowOk(d, id, row) ==
    /\ IsText(row.name) /\ IsText(row.email)
    /\ row.role \in UserRoles /\ row.status \in UserStatuses
    /\ row.banned \in {"true", "false", NULL}
    /\ row.banReason \notin {UndefT, AbsentT}
    /\ \A u \in DOMAIN d.user \ {id} : d.user[u].email # row.email
    /\ row.departmentId = NULL \/ row.departmentId \in DOMAIN d.department
    /\ row.managerId = NULL \/ row.managerId \in DOMAIN d.user

\* auth.api.signUpEmail followed by db.user.update (UserRepository.create).
\* The sign-up writes the user row (with the store's column defaults) and
\* its credential account; the update that follows applies the attributes.
\* threw: either call raised; db: the store as the calls left it.
UserRepositoryCreate(d, dto, newId) ==
    LET email == ToLowerCase(dto.email)
        signedUp ==
            [name |-> dto.name, email |-> email, role |-> "USER",
             status |-> "ACTIVE", departmentId |-> NULL, managerId |-> NULL,
             banned |-> "false", banReason |-> NullT, banExpires |-> NULL]
        d1 == [d EXCEPT !.user = With(d.user, newId, signedUp),
                        !.account = d.account \cup {newId}]
        p == PrepareCreateUserData(dto)
        row == [signedUp EXCEPT !.role = p.role, !.status = p.status,
                                !.departmentId = p.departmentId,
                                !.managerId = p.managerId]
    IN  IF ~UserRowOk(d, newId, signedUp) THEN [threw |-> TRUE, db |-> d]
        ELSE IF ~UserRowOk(d1, newId, row) THEN [threw |-> TRUE, db |-> d1]
        ELSE [threw |-> FALSE, db |-> [d1 EXCEPT !.user[newId] = row]]

\* UserRepository.update
UserRepositoryUpdate(d, id, data) ==
    IF id \notin DOMAIN d.user THEN [threw |-> TRUE, db |-> d]
    ELSE
    LET set == PrepareUpdateUserData(data)
        old == d.user[id]
        row == [f \in DOMAIN old |-> IF f \in set THEN data[f] ELSE old[f]]
    IN  IF ~UserRowOk(d, id, row) THEN [threw |-> TRUE, db |-> d]
        ELSE [threw |-> FALSE, db |-> [d EXCEPT !.user[id] = row]]

\* UserRepository.delete
UserRepositoryDelete(d, id) ==
    DeleteUserRow([d EXCEPT !.account = d.account \ {id}], id)

\* (a bug the stage-order claim must detect: the password stage linked
\* before the e-mail stage)
CreateUserOp_PasswordFirst(d, dto, newId) ==
    LET v == UserHandle(<<"RequiredFieldsHandler", "PasswordValidationHandler",
                          "EmailValidationHandler">>, d, dto)
    IN  IF ~v.success THEN Out(d, v)
        ELSE LET w == UserRepositoryCreate(d, dto, newId)
             IN  IF w.threw THEN Out(w.db, Fail("CREATE_ERROR"))
                 ELSE Revalidate(UsersPath, Out(w.db, Ok))

\* UserService.createUser
CreateUserOp(d, dto, newId) ==
    LET v == UserHandle(<<"RequiredFieldsHandler", "EmailValidationHandler",
                          "PasswordValidationHandler">>, d, dto)
    IN  IF ~v.success THEN Out(d, v)
        ELSE LET w == UserRepositoryCreate(d, dto, newId)
             IN  IF w.threw THEN Out(w.db, Fail("CREATE_ERROR"))
                 ELSE Revalidate(UsersPath, Out(w.db, Ok))

\* UserService.updateUser
UpdateUserOp(d, dto) ==
    LET v == UserHandle(<<"HierarchyValidationHandler">>, d, dto)
    IN  IF ~v.success THEN Out(d, v)
        ELSE LET w == UserRepositoryUpdate(d, dto.id, dto)
             IN  IF w.threw THEN Out(d, Fail("UPDATE_ERROR"))
                 ELSE Revalidate(UsersPath, Out(w.db, Ok))

\* (a bug the deletion-guard claim must detect: the subordinates test is
\* missing, so the delete goes through and the store nulls the references)
DeleteUserOp_NoSubordinatesTest(d, id) ==
    IF id \notin DOMAIN d.user THEN Out(d, Fail("NOT_FOUND"))
    ELSE Revalidate(UsersPath, Out(UserRepositoryDelete(d, id), Ok))

\* UserService.deleteUser
DeleteUserOp(d, id) ==
    IF id \notin DOMAIN d.user THEN Out(d, Fail("NOT_FOUND"))
    ELSE IF \E u \in DOMAIN d.user : d.user[u].managerId = id
    THEN Out(d, Fail("HAS_SUBORDINATES"))
    ELSE Revalidate(UsersPath, Out(UserRepositoryDelete(d, id), Ok))

-----------------------------------------------------------------------------
(* organization-actions.ts                                                  *)

InvitationDays == 7

OrgRoles == {"OWNER", "ADMIN", "MEMBER"}

\* OrganizationDataFactory.prepareCreateData (metadata, a second nullable
\* column handled like logo, is left out)
PrepareCreateOrganizationData(dto) ==
    [name |-> dto.name, slug |-> dto.slug,
     logo |-> IF dto.logo \in {UndefT, AbsentT, NullT} THEN NullT ELSE dto.logo]

\* /^[a-z0-9-]+$/.test(slug)
SlugRegexTest(slug) ==
    /\ IsText(slug)
    /\ Len(slug) > 0
    /\ \A i \in 1..Len(slug) : slug[i] \in LowerCase \cup Digit \cup {"-"}

\* SlugValidationStrategy.validate
SlugValidate(slug) ==
    IF SlugRegexTest(slug) THEN Ok ELSE Fail("INVALID_SLUG")

\* UniqueSlugValidationStrategy.validate
UniqueSlugValidate(d, slug) ==
    IF \E o \in DOMAIN d.organization : d.organization[o].slug = slug
    THEN Fail("SLUG_EXISTS")
    ELSE Ok

\* The requiredRoles both gated operations pass: [OrgRole.OWNER, OrgRole.ADMIN]
GateRoles == {"OWNER", "ADMIN"}

\* (a bug the permission-gate claim must detect: the membership looked up
\* by user alone, so a role held in another organization passes the gate)
PermissionValidate_AnyOrganization(d, organizationId, userId, requiredRoles) ==
    IF \E k \in DOMAIN d.organizationMember :
            k[2] = userId /\ d.organizationMember[k].role \in requiredRoles
    THEN Ok
    ELSE Fail("INSUFFICIENT_PERMISSIONS")

\* PermissionValidationStrategy.validate
PermissionValidate(d, organizationId, userId, requiredRoles) ==
    IF \/ <<organizationId, userId>> \notin DOMAIN d.organizationMember
       \/ d.organizationMember[<<organizationId, userId>>].role \notin requiredRoles
    THEN Fail("INSUFFICIENT_PERMISSIONS")
    ELSE Ok

\* RequiredFieldsHandler.validate (organization)
OrgRequiredFieldsValidate(dto) ==
    IF FalsyT(dto.name) \/ Trim(dto.name) = <<>> THEN Fail("REQUIRED_NAME")
    ELSE IF FalsyT(dto.slug) \/ Trim(dto.slug) = <<>> THEN Fail("REQUIRED_SLUG")
    ELSE Ok

\* The validate method of each organization handler class, by class name.
OrgHandlerValidate(h, d, dto) ==
    CASE h = "RequiredFieldsHandler" -> OrgRequiredFieldsValidate(dto)
      [] h = "SlugFormatHandler" -> SlugValidate(dto.slug)
      [] h = "UniqueSlugHandler" -> UniqueSlugValidate(d, dto.slug)

\* ValidationHandler.handle (organization-actions.ts) on the chain hs.
RECURSIVE OrgHandle(_, _, _)
OrgHandle(hs, d, dto) ==
    LET r == OrgHandlerValidate(Head(hs), d, dto)
    IN  IF ~r.success THEN r
        ELSE IF Len(hs) > 1 THEN OrgHandle(Tail(hs), d, dto)
        ELSE Ok

\* (a bug the born-with-owner claim must detect: the organization row
\* written without the nested members.create)
OrganizationRepositoryCreate_NoOwner(d, dto, ownerId, newId) ==
    LET row == PrepareCreateOrganizationData(dto)
    IN  IF \/ ~IsText(row.name) \/ ~IsText(row.slug)
           \/ \E o \in DOMAIN d.organization : d.organization[o].slug = row.slug
        THEN [threw |-> TRUE, db |-> d]
        ELSE [threw |-> FALSE,
              db |-> [d EXCEPT !.organization = With(d.organization, newId, row)]]

\* OrganizationRepository.create: the organization row and the owner's
\* membership are one nested write; the store rejects it as a whole when
\* the slug is taken (organization_slug_key) or ownerId names no user.
OrganizationRepositoryCreate(d, dto, ownerId, newId) ==
    LET row == PrepareCreateOrganizationData(dto)
    IN  IF \/ ~IsText(row.name) \/ ~IsText(row.slug)
           \/ \E o \in DOMAIN d.organization : d.organization[o].slug = row.slug
           \/ ownerId \notin DOMAIN d.user
        THEN [threw |-> TRUE, db |-> d]
        ELSE [threw |-> FALSE,
              db |-> [d EXCEPT
                        !.organization = With(d.organization, newId, row),
                        !.organizationMember =
                            With(d.organizationMember, <<newId, ownerId>>,
                                 [role |-> "OWNER"])]]

\* OrganizationRepository.delete
OrganizationRepositoryDelete(d, id) ==
    IF id \notin DOMAIN d.organization THEN [threw |-> TRUE, db |-> d]
    ELSE [threw |-> FALSE, db |-> DeleteOrganizationRow(d, id)]

\* (a bug the membership-uniqueness claim must detect: the table without
\* organization_member_organizationId_userId_key, so a second insert for
\* the pair goes through)
OrganizationRepositoryAddMember_NoUniqueIndex(d, dto) ==
    LET key == <<dto.organizationId, dto.userId>>
    IN  IF \/ dto.organizationId \notin DOMAIN d.organization
           \/ dto.userId \notin DOMAIN d.user
        THEN [threw |-> TRUE, db |-> d]
        ELSE [threw |-> FALSE,
              db |-> [d EXCEPT !.organizationMember =
                        With(d.organizationMember, key,
                             [role |-> IF Nullish(dto.role)
                                       THEN "MEMBER" ELSE dto.role])]]

\* OrganizationRepository.addMember
OrganizationRepositoryAddMember(d, dto) ==
    LET key == <<dto.organizationId, dto.userId>>
    IN  IF \/ key \in DOMAIN d.organizationMember
           \/ dto.organizationId \notin DOMAIN d.organization
           \/ dto.userId \notin DOMAIN d.user
        THEN [threw |-> TRUE, db |-> d]
        ELSE [threw |-> FALSE,
              db |-> [d EXCEPT !.organizationMember =
                        With(d.organizationMember, key,
                             [role |-> IF Nullish(dto.role)
                                       THEN "MEMBER" ELSE dto.role])]]

\* OrganizationRepository.removeMember
OrganizationRepositoryRemoveMember(d, organizationId, userId) ==
    IF <<organizationId, userId>> \notin DOMAIN d.organizationMember
    THEN [threw |-> TRUE, db |-> d]
    ELSE [threw |-> FALSE,
          db |-> [d EXCEPT !.organizationMember =
                    Without(d.organizationMember, {<<organizationId, userId>>})]]

\* OrganizationRepository.updateMemberRole
OrganizationRepositoryUpdateMemberRole(d, organizationId, userId, role) ==
    IF <<organizationId, userId>> \notin DOMAIN d.organizationMember
    THEN [threw |-> TRUE, db |-> d]
    ELSE [threw |-> FALSE,
          db |-> [d EXCEPT
                    !.organizationMember[<<organizationId, userId>>].role = role]]

\* OrganizationRepository.findInvitation: the key the lookup uses.
InvitationKey(organizationId, email) == <<organizationId, ToLowerCase(email)>>

\* (a bug the invitation-content claim must detect: setDate left out, so
\* the invitation expires at its creation time)
OrganizationRepositoryCreateInvitation_ExpiresNow(d, dto, now) ==
    LET key == <<dto.organizationId, ToLowerCase(dto.email)>>
    IN  IF \/ key \in DOMAIN d.organizationInvitation
           \/ dto.organizationId \notin DOMAIN d.organization
           \/ dto.inviterId \notin DOMAIN d.user
        THEN [threw |-> TRUE, db |-> d]
        ELSE [threw |-> FALSE,
              db |-> [d EXCEPT !.organizationInvitation =
                        With(d.organizationInvitation, key,
                             [role |-> IF Nullish(dto.role)
                                       THEN "MEMBER" ELSE dto.role,
                              inviterId |-> dto.inviterId,
                              expiresAt |-> now,
                              status |-> "PENDING"])]]

\* (a bug the one-invitation claim must detect: the store without the unique
\* index on (organizationId, email), so a second insert replaces the row)
OrganizationRepositoryCreateInvitation_NoUniqueIndex(d, dto, now) ==
    LET key == <<dto.organizationId, ToLowerCase(dto.email)>>
    IN  IF \/ dto.organizationId \notin DOMAIN d.organization
           \/ dto.inviterId \notin DOMAIN d.user
        THEN [threw |-> TRUE, db |-> d]
        ELSE [threw |-> FALSE,
              db |-> [d EXCEPT !.organizationInvitation =
                        With(d.organizationInvitation, key,
                             [role |-> IF Nullish(dto.role)
                                       THEN "MEMBER" ELSE dto.role,
                              inviterId |-> dto.inviterId,
                              expiresAt |-> now + InvitationDays,
                              status |-> "PENDING"])]]

\* OrganizationRepository.createInvitation at time now (in days); the store
\* rejects a second row for the same (organizationId, email).
OrganizationRepositoryCreateInvitation(d, dto, now) ==
    LET key == <<dto.organizationId, ToLowerCase(dto.email)>>
    IN  IF \/ key \in DOMAIN d.organizationInvitation
           \/ dto.organizationId \notin DOMAIN d.organization
           \/ dto.inviterId \notin DOMAIN d.user
        THEN [threw |-> TRUE, db |-> d]
        ELSE [threw |-> FALSE,
              db |-> [d EXCEPT !.organizationInvitation =
                        With(d.organizationInvitation, key,
                             [role |-> IF Nullish(dto.role)
                                       THEN "MEMBER" ELSE dto.role,
                              inviterId |-> dto.inviterId,
                              expiresAt |-> now + InvitationDays,
                              status |-> "PENDING"])]]

\* OrganizationService.createOrganization
CreateOrganizationOp(d, dto, ownerId, newId) ==
    LET v == OrgHandle(<<"RequiredFieldsHandler", "SlugFormatHandler",
                         "UniqueSlugHandler">>, d, dto)
    IN  IF ~v.success THEN Out(d, v)
        ELSE LET w == OrganizationRepositoryCreate(d, dto, ownerId, newId)
             IN  IF w.threw THEN Out(d, Fail("CREATE_ERROR"))
                 ELSE Revalidate(OrganizationsPath, Out(w.db, Ok))

\* OrganizationService.deleteOrganization
DeleteOrganizationOp(d, id) ==
    LET w == OrganizationRepositoryDelete(d, id)
    IN  IF w.threw THEN Out(d, Fail("DELETE_ERROR"))
        ELSE Revalidate(OrganizationsPath, Out(w.db, Ok))

\* OrganizationService.addMember
AddMemberOp(d, dto) ==
    IF <<dto.organizationId, dto.userId>> \in DOMAIN d.organizationMember
    THEN Out(d, Fail("ALREADY_MEMBER"))
    ELSE LET w == OrganizationRepositoryAddMember(d, dto)
         IN  IF w.threw THEN Out(d, Fail("ADD_MEMBER_ERROR"))
             ELSE Revalidate(OrganizationsPath, Out(w.db, Ok))

\* (a bug the owner claims must detect: the role test compares with ADMIN)
RemoveMemberOp_WrongRole(d, organizationId, userId) ==
    IF <<organizationId, userId>> \notin DOMAIN d.organizationMember
    THEN Out(d, Fail("MEMBER_NOT_FOUND"))
    ELSE IF d.organizationMember[<<organizationId, userId>>].role = "ADMIN"
    THEN Out(d, Fail("CANNOT_REMOVE_OWNER"))
    ELSE LET w == OrganizationRepositoryRemoveMember(d, organizationId, userId)
         IN  IF w.threw THEN Out(d, Fail("REMOVE_MEMBER_ERROR"))
             ELSE Revalidate(OrganizationsPath, Out(w.db, Ok))

\* OrganizationService.removeMember
RemoveMemberOp(d, organizationId, userId) ==
    IF <<organizationId, userId>> \notin DOMAIN d.organizationMember
    THEN Out(d, Fail("MEMBER_NOT_FOUND"))
    ELSE IF d.organizationMember[<<organizationId, userId>>].role = "OWNER"
    THEN Out(d, Fail("CANNOT_REMOVE_OWNER"))
    ELSE LET w == OrganizationRepositoryRemoveMember(d, organizationId, userId)
         IN  IF w.threw THEN Out(d, Fail("REMOVE_MEMBER_ERROR"))
             ELSE Revalidate(OrganizationsPath, Out(w.db, Ok))

\* (a bug the owner claims must detect: the owner test is missing)
UpdateMemberRoleOp_NoOwnerTest(d, organizationId, userId, role, requesterId) ==
    LET g == PermissionValidate(d, organizationId, requesterId, GateRoles)
    IN  IF ~g.success THEN Out(d, g)
        ELSE IF <<organizationId, userId>> \notin DOMAIN d.organizationMember
        THEN Out(d, Fail("MEMBER_NOT_FOUND"))
        ELSE LET w == OrganizationRepositoryUpdateMemberRole(
                          d, organizationId, userId, role)
             IN  IF w.threw THEN Out(d, Fail("UPDATE_ROLE_ERROR"))
                 ELSE Revalidate(OrganizationsPath, Out(w.db, Ok))

\* OrganizationService.updateMemberRole
UpdateMemberRoleOp(d, organizationId, userId, role, requesterId) ==
    LET g == PermissionValidate(d, organizationId, requesterId, GateRoles)
    IN  IF ~g.success THEN Out(d, g)
        ELSE IF <<organizationId, userId>> \notin DOMAIN d.organizationMember
        THEN Out(d, Fail("MEMBER_NOT_FOUND"))
        ELSE IF /\ d.organizationMember[<<organizationId, userId>>].role = "OWNER"
                /\ role # "OWNER"
        THEN Out(d, Fail("CANNOT_CHANGE_OWNER_ROLE"))
        ELSE LET w == OrganizationRepositoryUpdateMemberRole(
                          d, organizationId, userId, role)
             IN  IF w.threw THEN Out(d, Fail("UPDATE_ROLE_ERROR"))
                 ELSE Revalidate(OrganizationsPath, Out(w.db, Ok))

\* (a bug the gate claim must detect: the pending-invitation test runs
\* before the permission gate)
InviteMemberOp_GateLast(d, dto, now) ==
    LET g == PermissionValidate(d, dto.organizationId, dto.inviterId, GateRoles)
        key == InvitationKey(dto.organizationId, dto.email)
    IN  IF /\ key \in DOMAIN d.organizationInvitation
           /\ d.organizationInvitation[key].status = "PENDING"
        THEN Out(d, Fail("INVITATION_EXISTS"))
        ELSE IF ~g.success THEN Out(d, g)
        ELSE LET w == OrganizationRepositoryCreateInvitation(d, dto, now)
             IN  IF w.threw THEN Out(d, Fail("INVITE_ERROR"))
                 ELSE Revalidate(OrganizationsPath, Out(w.db, Ok))

\* (a bug the duplicate-invitation claim must detect: the pending
\* invitation is looked up under the e-mail as typed, not lower-cased)
InviteMemberOp_CaseSensitiveLookup(d, dto, now) ==
    LET g == PermissionValidate(d, dto.organizationId, dto.inviterId, GateRoles)
        key == <<dto.organizationId, dto.email>>
    IN  IF ~g.success THEN Out(d, g)
        ELSE IF /\ key \in DOMAIN d.organizationInvitation
                /\ d.organizationInvitation[key].status = "PENDING"
        THEN Out(d, Fail("INVITATION_EXISTS"))
        ELSE LET w == OrganizationRepositoryCreateInvitation(d, dto, now)
             IN  IF w.threw THEN Out(d, Fail("INVITE_ERROR"))
                 ELSE Revalidate(OrganizationsPath, Out(w.db, Ok))

\* OrganizationService.inviteMember at time now
InviteMemberOp(d, dto, now) ==
    LET g == PermissionValidate(d, dto.organizationId, dto.inviterId, GateRoles)
        key == InvitationKey(dto.organizationId, dto.email)
    IN  IF ~g.success THEN Out(d, g)
        ELSE IF /\ key \in DOMAIN d.organizationInvitation
                /\ d.organizationInvitation[key].status = "PENDING"
        THEN Out(d, Fail("INVITATION_EXISTS"))
        ELSE LET w == OrganizationRepositoryCreateInvitation(d, dto, now)
             IN  IF w.threw THEN Out(d, Fail("INVITE_ERROR"))
                 ELSE Revalidate(OrganizationsPath, Out(w.db, Ok))

OrgTextFields == {"name", "slug", "logo"}

\* OrganizationDataFactory.prepareUpdateData: the fields of the DTO that
\* are defined (metadata left out, as in prepareCreateData).
PrepareUpdateOrganizationData(data) ==
    {f \in OrgTextFields : data[f] \notin {UndefT, AbsentT}}

\* OrganizationRepository.update; the store rejects a null name or slug and
\* a slug another organization has (organization_slug_key).
OrganizationRepositoryUpdate(d, id, data) ==
    IF id \notin DOMAIN d.organization THEN [threw |-> TRUE, db |-> d]
    ELSE
    LET set == PrepareUpdateOrganizationData(data)
        old == d.organization[id]
        row == [f \in DOMAIN old |-> IF f \in set THEN data[f] ELSE old[f]]
    IN  IF \/ ~IsText(row.name) \/ ~IsText(row.slug)
           \/ \E o \in DOMAIN d.organization \ {id} :
                d.organization[o].slug = row.slug
        THEN [threw |-> TRUE, db |-> d]
        ELSE [threw |-> FALSE, db |-> [d EXCEPT !.organization[id] = row]]

\* (a bug the idempotence claim must detect: the slug test does not set
\* aside the organization being updated)
UpdateOrganizationOp_NoSelfExclusion(d, dto) ==
    LET v == SlugValidate(dto.slug)
        w == OrganizationRepositoryUpdate(d, dto.id, dto)
    IN  IF ~FalsyT(dto.slug) /\ ~v.success THEN Out(d, v)
        ELSE IF /\ ~FalsyT(dto.slug)
                /\ \E o \in DOMAIN d.organization : d.organization[o].slug = dto.slug
        THEN Out(d, Fail("SLUG_EXISTS"))
        ELSE IF w.threw THEN Out(d, Fail("UPDATE_ERROR"))
        ELSE Revalidate(OrganizationsPath, Out(w.db, Ok))

\* OrganizationService.updateOrganization
UpdateOrganizationOp(d, dto) ==
    LET v == SlugValidate(dto.slug)
        w == OrganizationRepositoryUpdate(d, dto.id, dto)
    IN  IF ~FalsyT(dto.slug) /\ ~v.success THEN Out(d, v)
        ELSE IF /\ ~FalsyT(dto.slug)
                /\ \E o \in DOMAIN d.organization :
                        d.organization[o].slug = dto.slug /\ o # dto.id
        THEN Out(d, Fail("SLUG_EXISTS"))
        ELSE IF w.threw THEN Out(d, Fail("UPDATE_ERROR"))
        ELSE Revalidate(OrganizationsPath, Out(w.db, Ok))

-----------------------------------------------------------------------------
(* Requests served one at a time                                            *)

\* One request runs from start to end: the store and the returned result
\* change together, and the store it started from is kept in pre.
Serve(c, out) ==
    /\ db' = out.db
    /\ result' = out.result
    /\ call' = c
    /\ pre' = db
    /\ revalidated' = out.revalidated
    /\ UNCHANGED <<proc, chain>>

Idle == [op |-> "none"]

\* Inputs of the department requests.
DeptCreateNames == {<<"E">>, <<" ">>}
DeptUpdateNames == {AbsentT, <<"E">>, <<>>}
DeptParentInputs == DeptId \cup {UNDEF, NULL, EMPTY}

CreateDepartmentDTOs ==
    [name : DeptCreateNames, description : {AbsentT}, parentId : DeptParentInputs]

UpdateDepartmentDTOs ==
    [id : DeptId, name : DeptUpdateNames, description : {AbsentT},
     parentId : DeptParentInputs]

\* export createDepartment(dto); the new row gets an id no row has.
createDepartment ==
    \E dto \in CreateDepartmentDTOs, newId \in DeptId :
        /\ newId \notin DOMAIN db.department
        /\ Serve([op |-> "createDepartment", dto |-> dto],
                 CreateDepartmentOp(db, dto, newId))

\* export updateDepartment(dto)
updateDepartment ==
    \E dto \in UpdateDepartmentDTOs :
        Serve([op |-> "updateDepartment", dto |-> dto], UpdateDepartmentOp(db, dto))

\* export deleteDepartment(id)
deleteDepartment ==
    \E id \in DeptId :
        Serve([op |-> "deleteDepartment", id |-> id], DeleteDepartmentOp(db, id))

InitDept ==
    /\ db = EmptyDb
    /\ pre = EmptyDb
    /\ call = Idle
    /\ result = Ok
    /\ proc = EmptyTable
    /\ chain = EmptyTable
    /\ revalidated = <<>>

NextDept == createDepartment \/ updateDepartment \/ deleteDepartment

\* The department service, its requests served one at a time.
SpecDept == InitDept /\ [][NextDept]_vars

\* Inputs of the user requests.
EmailA == <<"a", "@", "x", ".", "c">>
EmailAUpper == <<"A", "@", "x", ".", "c">>
EmailB == <<"b", "@", "x", ".", "c">>
EmailC == <<"c", "@", "x", ".", "c">>
EmailBad == <<"a", "x", ".", "c">>
GoodPassword == <<"P", "w", "1", "x", "x", "x", "x", "x">>

\* An UpdateUserDTO that carries only the id.
BareUpdateUserDTO(id) ==
    [id |-> id, name |-> UndefT, email |-> UndefT, role |-> UNDEF,
     status |-> UNDEF, departmentId |-> UNDEF, managerId |-> UNDEF,
     banned |-> UNDEF, banReason |-> UndefT, banExpires |-> UNDEF]

\* An UpdateUserDTO that also carries a name, a role and a status.
LoadedUpdateUserDTO(id) ==
    [BareUpdateUserDTO(id) EXCEPT
        !.name = <<"M">>, !.role = "MANAGER", !.status = "INACTIVE"]

UserManagerInputs == UserId \cup {UNDEF, NULL}

CreateUserDTOs ==
    [name : {<<"N">>}, email : {EmailA, EmailB, EmailC, EmailBad},
     password : {GoodPassword}, role : {UNDEF}, status : {UNDEF},
     departmentId : {UNDEF}, managerId : UserId \cup {UNDEF, GHOST}]

UpdateUserDTOs ==
    {[base EXCEPT !.managerId = m] :
        base \in {BareUpdateUserDTO(id) : id \in UserId}
                    \cup {LoadedUpdateUserDTO(id) : id \in UserId},
        m \in UserManagerInputs}

\* export createUser(dto).  The identity provider draws the id of the new
\* user during the call: it is an id no row has and no caller can name.
createUser ==
    \E dto \in CreateUserDTOs, newId \in UserId :
        /\ newId \notin DOMAIN db.user
        /\ dto.managerId # newId
        /\ Serve([op |-> "createUser", dto |-> dto], CreateUserOp(db, dto, newId))

\* export updateUser(dto)
updateUser ==
    \E dto \in UpdateUserDTOs :
        Serve([op |-> "updateUser", dto |-> dto], UpdateUserOp(db, dto))

\* export deleteUser(id)
deleteUser ==
    \E id \in UserId :
        Serve([op |-> "deleteUser", id |-> id], DeleteUserOp(db, id))

InitUser == InitDept

NextUser == createUser \/ updateUser \/ deleteUser

\* The user service, its requests served one at a time.
SpecUser == InitUser /\ [][NextUser]_vars

\* Inputs of the organization requests.  The users of these specifications
\* are the two the store starts with.
OrgUser == {"u1", "u2"}

Clock == 0..MaxClock

CreateOrganizationDTOs ==
    [name : {<<"O">>}, slug : {<<"a">>, <<"b">>, <<"A">>}, logo : {UndefT}]

AddMemberDTOs ==
    [organizationId : OrgId, userId : OrgUser, role : OrgRoles \cup {UNDEF}]

InviteMemberDTOs ==
    [organizationId : OrgId, email : {EmailA, EmailAUpper},
     role : {UNDEF, "ADMIN"}, inviterId : OrgUser]

\* export createOrganization(dto, ownerId); the new row gets a random id.
createOrganization ==
    \E dto \in CreateOrganizationDTOs, ownerId \in OrgUser, newId \in OrgId :
        /\ newId \notin DOMAIN db.organization
        /\ Serve([op |-> "createOrganization", dto |-> dto, ownerId |-> ownerId],
                 CreateOrganizationOp(db, dto, ownerId, newId))

\* export deleteOrganization(id)
deleteOrganization ==
    \E id \in OrgId :
        Serve([op |-> "deleteOrganization", id |-> id], DeleteOrganizationOp(db, id))

\* export addOrganizationMember(dto)
addMember ==
    \E dto \in AddMemberDTOs :
        Serve([op |-> "addMember", dto |-> dto], AddMemberOp(db, dto))

\* export removeOrganizationMember(organizationId, userId)
removeMember ==
    \E o \in OrgId, u \in OrgUser :
        Serve([op |-> "removeMember", organizationId |-> o, userId |-> u],
              RemoveMemberOp(db, o, u))

\* export updateOrganizationMemberRole(organizationId, userId, role, requesterId)
updateMemberRole ==
    \E o \in OrgId, u \in OrgUser, role \in OrgRoles, requesterId \in OrgUser :
        Serve([op |-> "updateMemberRole", organizationId |-> o, userId |-> u,
               role |-> role, requesterId |-> requesterId],
              UpdateMemberRoleOp(db, o, u, role, requesterId))

\* export inviteOrganizationMember(dto), called at time now
inviteMember ==
    \E dto \in InviteMemberDTOs, now \in Clock :
        Serve([op |-> "inviteMember", dto |-> dto, now |-> now],
              InviteMemberOp(db, dto, now))

\* export deleteUser(id), for the users of the organization specifications
deleteOrgUser ==
    \E id \in OrgUser :
        Serve([op |-> "deleteUser", id |-> id], DeleteUserOp(db, id))

\* A user row as createUser leaves it.
UserRow(name, email, managerId) ==
    [name |-> name, email |-> email, role |-> "USER", status |-> "ACTIVE",
     departmentId |-> NULL, managerId |-> managerId, banned |-> "false",
     banReason |-> NullT, banExpires |-> NULL]

\* The store after createUser of u1 and of u2, u2 reporting to u1.
TwoUsersDb ==
    [EmptyDb EXCEPT
        !.user = [u \in OrgUser |->
                    IF u = "u1" THEN UserRow(<<"N">>, EmailB, NULL)
                    ELSE UserRow(<<"N">>, EmailC, "u1")],
        !.account = OrgUser]

InitOrg ==
    /\ db = TwoUsersDb
    /\ pre = TwoUsersDb
    /\ call = Idle
    /\ result = Ok
    /\ proc = EmptyTable
    /\ chain = EmptyTable
    /\ revalidated = <<>>

NextOrg ==
    \/ createOrganization
    \/ deleteOrganization
    \/ addMember
    \/ removeMember
    \/ updateMemberRole
    \/ deleteOrgUser

\* The organization service (organizations and memberships) and deleteUser,
\* requests served one at a time.
SpecOrg == InitOrg /\ [][NextOrg]_vars

\* The store after u1's createOrganization of o1 and addMember of u2 to it.
InvitingDb ==
    [TwoUsersDb EXCEPT
        !.organization =
            [o \in {"o1"} |-> [name |-> <<"O">>, slug |-> <<"a">>, logo |-> NullT]],
        !.organizationMember =
            [k \in {"o1"} \X OrgUser |->
                [role |-> IF k[2] = "u1" THEN "OWNER" ELSE "MEMBER"]]]

InitInvite ==
    /\ db = InvitingDb
    /\ pre = InvitingDb
    /\ call = Idle
    /\ result = Ok
    /\ proc = EmptyTable
    /\ chain = EmptyTable
    /\ revalidated = <<>>

NextInvite == addMember \/ removeMember \/ updateMemberRole \/ inviteMember

\* Memberships and invitations of one organization (requests that name
\* another organization find none), requests served one at a time.
SpecInvite == InitInvite /\ [][NextInvite]_vars

-----------------------------------------------------------------------------
(* updateDepartment requests in flight together                             *)
(* An async function runs without interruption from one await of a store    *)
(* call to the next; the store calls of two requests interleave freely.     *)
(* proc[p] is request p: where it stands (pc), its dto, the walk's          *)
(* currentParentId and visitedIds, and the result once it has returned.     *)

ProcId == {"p1", "p2"}

ConcDepartmentDTOs ==
    [id : DeptId, name : {AbsentT}, description : {AbsentT},
     parentId : DeptId \cup {NULL}]

NoRequest ==
    [pc |-> "idle", dto |-> NULL, currentParentId |-> NULL, visitedIds |-> {},
     result |-> Ok, revalidated |-> <<>>]

\* CircularHierarchyValidationStrategy.validate from the top of its while
\* loop to the next findUnique (or to its return): request r with the walk
\* standing at currentParentId cur.
WalkOn(r, cur) ==
    IF Falsy(cur)
    THEN [r EXCEPT !.pc = "update", !.currentParentId = NULL]
    ELSE IF cur \in r.visitedIds
    THEN [r EXCEPT !.pc = "returned", !.result = Fail("CIRCULAR_HIERARCHY")]
    ELSE [r EXCEPT !.pc = "walk", !.currentParentId = cur,
                   !.visitedIds = r.visitedIds \cup {cur}]

\* updateDepartment is called: the chain runs RequiredNameHandler and
\* ParentExistenceHandler up to the latter's findUnique.
ConcStart(p) ==
    \E dto \in ConcDepartmentDTOs :
        /\ proc[p].pc \in {"idle", "returned"}
        /\ LET r == [NoRequest EXCEPT !.dto = dto]
               v == RequiredNameValidate(dto)
           IN  proc' = [proc EXCEPT ![p] =
                   IF ~v.success THEN [r EXCEPT !.pc = "returned", !.result = v]
                   ELSE IF Falsy(dto.parentId) THEN [r EXCEPT !.pc = "update"]
                   ELSE [r EXCEPT !.pc = "parentExistence"]]
        /\ UNCHANGED <<db, pre, call, result, chain, revalidated>>

\* ParentExistenceValidationStrategy.validate's findUnique answers; on
\* success CircularHierarchyHandler starts its walk.
ConcParentExistence(p) ==
    /\ proc[p].pc = "parentExistence"
    /\ LET r == proc[p]
           v == ParentExistenceValidate(db, r.dto.parentId)
       IN  proc' = [proc EXCEPT ![p] =
               IF ~v.success THEN [r EXCEPT !.pc = "returned", !.result = v]
               ELSE WalkOn([r EXCEPT !.visitedIds = {r.dto.id}], r.dto.parentId)]
    /\ UNCHANGED <<db, pre, call, result, chain, revalidated>>

\* One findUnique of the walk answers: one step up.
ConcWalk(p) ==
    /\ proc[p].pc = "walk"
    /\ LET r == proc[p]
           cur == r.currentParentId
       IN  proc' = [proc EXCEPT ![p] =
               WalkOn(r, IF cur \in DOMAIN db.department
                         THEN db.department[cur].parentId ELSE NULL)]
    /\ UNCHANGED <<db, pre, call, result, chain, revalidated>>

\* repository.update writes, and the request returns.
ConcUpdate(p) ==
    /\ proc[p].pc = "update"
    /\ LET r == proc[p]
           w == DepartmentRepositoryUpdate(db, r.dto.id, r.dto)
       IN  /\ db' = w.db
           /\ proc' = [proc EXCEPT ![p] =
                  [r EXCEPT !.pc = "returned",
                            !.result = IF w.threw THEN Fail("UPDATE_ERROR") ELSE Ok,
                            !.revalidated = IF w.threw THEN <<>>
                                            ELSE <<DepartmentsPath>>]]
    /\ UNCHANGED <<pre, call, result, chain, revalidated>>

\* The store holds MaxDept root departments and no request is in flight.
InitDeptConc ==
    /\ db = [EmptyDb EXCEPT !.department =
                [k \in DeptId |->
                    [name |-> <<"E">>, description |-> NullT, parentId |-> NULL]]]
    /\ pre = EmptyDb
    /\ call = Idle
    /\ result = Ok
    /\ proc = [p \in ProcId |-> NoRequest]
    /\ chain = EmptyTable
    /\ revalidated = <<>>

NextDeptConc ==
    \E p \in ProcId :
        ConcStart(p) \/ ConcParentExistence(p) \/ ConcWalk(p) \/ ConcUpdate(p)

\* Two clients of updateDepartment, their store calls interleaved.
SpecDeptConc == InitDeptConc /\ [][NextDeptConc]_vars

-----------------------------------------------------------------------------
(* ValidationHandler: a chain built with setNext, then handle(data)         *)
(* chain.results[i] is what handler i's validate returns for the data;      *)
(* chain.next[i] is handler i's next field (0 for null); chain.last is the  *)
(* handler the last setNext returned; chain.cur is the handler whose handle *)
(* is running; chain.invoked lists the validate calls made, in order;       *)
(* chain.out is what the head's handle returned.                            *)

ValidateResults ==
    {[success |-> TRUE, code |-> UNDEF, error |-> UNDEF],
     [success |-> FALSE, code |-> "E1", error |-> "first"],
     [success |-> FALSE, code |-> "E2", error |-> "second"]}

\* new Handler(): the chain is its head alone, next = null.
NewChain(r) ==
    [results |-> <<r>>, next |-> <<0>>, last |-> 1, phase |-> "build",
     cur |-> 0, invoked |-> <<>>, out |-> NULL]

\* ValidationHandler.setNext, called on the handler the previous call
\* returned (the head at first) with a new handler whose validate returns r.
SetNext(c, r) ==
    LET h == Len(c.results) + 1
    IN  [c EXCEPT !.results = Append(c.results, r),
                  !.next = [Append(c.next, 0) EXCEPT ![c.last] = h],
                  !.last = h]

\* (a bug the short-circuit claim must detect: a failure is returned only by
\* the last handler, the others pass the data on whatever validate said)
HandleStep_NoShortCircuit(c) ==
    LET r == c.results[c.cur]
        c1 == [c EXCEPT !.invoked = Append(c.invoked, c.cur)]
    IN  IF c.next[c.cur] # 0 THEN [c1 EXCEPT !.cur = c.next[c.cur]]
        ELSE IF ~r.success
        THEN [c1 EXCEPT !.phase = "returned", !.out = r]
        ELSE [c1 EXCEPT !.phase = "returned", !.out = [success |-> TRUE]]

\* ValidationHandler.handle of handler c.cur: validate, then return its
\* failure, or hand over to next, or return success.
HandleStep(c) ==
    LET r == c.results[c.cur]
        c1 == [c EXCEPT !.invoked = Append(c.invoked, c.cur)]
    IN  IF ~r.success
        THEN [c1 EXCEPT !.phase = "returned", !.out = r]
        ELSE IF c.next[c.cur] # 0 THEN [c1 EXCEPT !.cur = c.next[c.cur]]
        ELSE [c1 EXCEPT !.phase = "returned", !.out = [success |-> TRUE]]

ChainSetNext ==
    \E r \in ValidateResults :
        /\ chain.phase = "build"
        /\ Len(chain.results) < MaxChain
        /\ chain' = SetNext(chain, r)
        /\ UNCHANGED <<db, pre, call, result, proc, revalidated>>

\* validationChain.handle(dto) is called on the head.
ChainHandle ==
    /\ chain.phase = "build"
    /\ chain' = [chain EXCEPT !.phase = "run", !.cur = 1]
    /\ UNCHANGED <<db, pre, call, result, proc, revalidated>>

ChainStep ==
    /\ chain.phase = "run"
    /\ chain' = HandleStep(chain)
    /\ UNCHANGED <<db, pre, call, result, proc, revalidated>>

InitChain ==
    /\ db = EmptyDb
    /\ pre = EmptyDb
    /\ call = Idle
    /\ result = Ok
    /\ proc = EmptyTable
    /\ chain \in {NewChain(r) : r \in ValidateResults}
    /\ revalidated = <<>>

NextChain == ChainSetNext \/ ChainHandle \/ ChainStep

\* Any chain of up to MaxChain handlers, built and then run on one input.
SpecChain == InitChain /\ [][NextChain]_vars

-----------------------------------------------------------------------------
(* Requests whose input breaks several validation stages at once            *)

WeakPassword == <<"p", "p", "p", "p", "p", "p", "p", "p">>

StagedCreateUserDTOs ==
    [name : {<<"N">>, <<" ">>}, email : {EmailA, EmailB, EmailBad, <<>>},
     password : {GoodPassword, WeakPassword, <<"p">>, <<>>},
     role : {UNDEF}, status : {UNDEF}, departmentId : {UNDEF},
     managerId : {UNDEF}]

StagedCreateOrganizationDTOs ==
    [name : {<<"O">>, <<>>}, slug : {<<"a">>, <<"b">>, <<"A">>, <<" ">>},
     logo : {UndefT}]

\* export createUser(dto), any of its three stages possibly violated
createUserStaged ==
    \E dto \in StagedCreateUserDTOs, newId \in UserId :
        /\ newId \notin DOMAIN db.user
        /\ Serve([op |-> "createUser", dto |-> dto], CreateUserOp(db, dto, newId))

\* export createOrganization(dto, ownerId), any stage possibly violated
createOrganizationStaged ==
    \E dto \in StagedCreateOrganizationDTOs, ownerId \in OrgUser, newId \in OrgId :
        /\ newId \notin DOMAIN db.organization
        /\ Serve([op |-> "createOrganization", dto |-> dto, ownerId |-> ownerId],
                 CreateOrganizationOp(db, dto, ownerId, newId))

\* The store after createUser of u1 and u2, createDepartment of d1 and of
\* d2 under d1, and u1's createOrganization of o1.
StagedDb ==
    [TwoUsersDb EXCEPT
        !.department =
            [k \in {"d1", "d2"} |->
                [name |-> <<"E">>, description |-> NullT,
                 parentId |-> IF k = "d1" THEN NULL ELSE "d1"]],
        !.organization =
            [o \in {"o1"} |-> [name |-> <<"O">>, slug |-> <<"a">>, logo |-> NullT]],
        !.organizationMember = [k \in {<<"o1", "u1">>} |-> [role |-> "OWNER"]]]

InitStages ==
    /\ db = StagedDb
    /\ pre = StagedDb
    /\ call = Idle
    /\ result = Ok
    /\ proc = EmptyTable
    /\ chain = EmptyTable
    /\ revalidated = <<>>

NextStages == createUserStaged \/ updateDepartment \/ createOrganizationStaged

\* The three chained operations, on inputs that may fail several stages.
SpecStages == InitStages /\ [][NextStages]_vars

-----------------------------------------------------------------------------
(* The three update operations on DTOs that carry some fields and not others *)

\* UpdateUserDTOs of this specification: managerId and banReason absent,
\* null or set; GHOST is an id no user has.
FieldUpdateUserDTOs ==
    {[BareUpdateUserDTO(id) EXCEPT !.managerId = m, !.banReason = b] :
        id \in {"u2", GHOST}, m \in {UNDEF, NULL, "u1"},
        b \in {UndefT, NullT, <<"r">>}}

FieldUpdateDepartmentDTOs ==
    [id : {"d2", GHOST}, name : {AbsentT},
     description : {AbsentT, NullT, <<"t">>}, parentId : {UNDEF, NULL, "d1"}]

UpdateOrganizationDTOs ==
    [id : {"o1", GHOST}, name : {UndefT, <<"P">>},
     slug : {UndefT, <<"b">>, <<"A">>}, logo : {UndefT, NullT, <<"l">>}]

\* export updateUser(dto)
updateUserFields ==
    \E dto \in FieldUpdateUserDTOs :
        Serve([op |-> "updateUser", dto |-> dto], UpdateUserOp(db, dto))

\* export updateDepartment(dto)
updateDepartmentFields ==
    \E dto \in FieldUpdateDepartmentDTOs :
        Serve([op |-> "updateDepartment", dto |-> dto], UpdateDepartmentOp(db, dto))

\* export updateOrganization(dto)
updateOrganization ==
    \E dto \in UpdateOrganizationDTOs :
        Serve([op |-> "updateOrganization", dto |-> dto],
              UpdateOrganizationOp(db, dto))

InitUpdates == InitStages

NextUpdates == updateUserFields \/ updateDepartmentFields \/ updateOrganization

\* updateUser, updateDepartment and updateOrganization on a populated store.
SpecUpdates == InitUpdates /\ [][NextUpdates]_vars

-----------------------------------------------------------------------------
(* Departments with users assigned to them                                  *)

DepartmentUpdateUserDTOs ==
    {[BareUpdateUserDTO(id) EXCEPT !.departmentId = dep] :
        id \in OrgUser, dep \in DeptId \cup {NULL}}

\* export updateUser(dto), the DTO carrying a departmentId
updateUserDepartment ==
    \E dto \in DepartmentUpdateUserDTOs :
        Serve([op |-> "updateUser", dto |-> dto], UpdateUserOp(db, dto))

InitDeptUsers == InitStages

NextDeptUsers == createDepartment \/ deleteDepartment \/ updateUserDepartment

\* The department service and the assignment of users to departments.
SpecDeptUsers == InitDeptUsers /\ [][NextDeptUsers]_vars

-----------------------------------------------------------------------------
(* createOrganization requests in flight together                           *)
(* proc[p] is request p: where it stands (pc), its dto and ownerId, whether *)
(* it passed the slug look-up while the other request had passed it for the *)
(* same slug and not yet written (raced), and its result.                   *)

NoCreateRequest ==
    [pc |-> "idle", dto |-> NULL, ownerId |-> NULL, raced |-> FALSE, result |-> Ok,
     revalidated |-> <<>>]

\* The request of the other client.
OtherProc(p) == CHOOSE q \in ProcId : q # p

\* createOrganization is called: RequiredFieldsHandler and SlugFormatHandler
\* run, up to the findUnique of UniqueSlugValidationStrategy.
ConcCreateStart(p) ==
    \E dto \in CreateOrganizationDTOs, ownerId \in OrgUser :
        /\ proc[p].pc \in {"idle", "returned"}
        /\ LET r == [NoCreateRequest EXCEPT !.dto = dto, !.ownerId = ownerId]
               v == OrgHandle(<<"RequiredFieldsHandler", "SlugFormatHandler">>,
                              db, dto)
           IN  proc' = [proc EXCEPT ![p] =
                   IF ~v.success THEN [r EXCEPT !.pc = "returned", !.result = v]
                   ELSE [r EXCEPT !.pc = "uniqueSlug"]]
        /\ UNCHANGED <<db, pre, call, result, chain, revalidated>>

\* UniqueSlugValidationStrategy.validate's findUnique answers.
ConcUniqueSlug(p) ==
    /\ proc[p].pc = "uniqueSlug"
    /\ LET r == proc[p]
           q == OtherProc(p)
           v == UniqueSlugValidate(db, r.dto.slug)
           race == proc[q].pc = "create" /\ proc[q].dto.slug = r.dto.slug
       IN  proc' =
               IF ~v.success
               THEN [proc EXCEPT ![p] = [r EXCEPT !.pc = "returned", !.result = v]]
               ELSE [proc EXCEPT ![p] = [r EXCEPT !.pc = "create", !.raced = race],
                                 ![q] = [proc[q] EXCEPT !.raced = @ \/ race]]
    /\ UNCHANGED <<db, pre, call, result, chain, revalidated>>

\* repository.create writes (under a random id), and the request returns.
ConcCreate(p) ==
    \E newId \in OrgId :
        /\ proc[p].pc = "create"
        /\ newId \notin DOMAIN db.organization
        /\ LET r == proc[p]
               w == OrganizationRepositoryCreate(db, r.dto, r.ownerId, newId)
           IN  /\ db' = w.db
               /\ proc' = [proc EXCEPT ![p] =
                      [r EXCEPT !.pc = "returned",
                                !.result = IF w.threw THEN Fail("CREATE_ERROR")
                                           ELSE Ok,
                                !.revalidated = IF w.threw THEN <<>>
                                                ELSE <<OrganizationsPath>>]]
        /\ UNCHANGED <<pre, call, result, chain, revalidated>>

InitOrgConc ==
    /\ db = TwoUsersDb
    /\ pre = TwoUsersDb
    /\ call = Idle
    /\ result = Ok
    /\ proc = [p \in ProcId |-> NoCreateRequest]
    /\ chain = EmptyTable
    /\ revalidated = <<>>

NextOrgConc ==
    \E p \in ProcId : ConcCreateStart(p) \/ ConcUniqueSlug(p) \/ ConcCreate(p)

\* Two clients of createOrganization, their store calls interleaved.
SpecOrgConc == InitOrgConc /\ [][NextOrgConc]_vars

-----------------------------------------------------------------------------
(* DepartmentRepository.getHierarchy: the tree assembled from a flat list   *)

\* (a bug the tree-assembler claim must detect: every node is pushed to
\* rootDepartments, also one pushed to its parent's children)
RECURSIVE HierarchyLoop_AllRoots(_, _, _)
HierarchyLoop_AllRoots(departments, i, acc) ==
    IF i > Len(departments) THEN acc
    ELSE
    LET dept == departments[i]
        ids == {departments[j].id : j \in 1..Len(departments)}
        pushed == [acc EXCEPT !.roots = Append(@, dept.id)]
    IN  HierarchyLoop_AllRoots(departments, i + 1,
            IF ~Falsy(dept.parentId) /\ dept.parentId \in ids
            THEN [pushed EXCEPT !.children[dept.parentId] = Append(@, dept.id)]
            ELSE pushed)

\* The second loop of getHierarchy from row i of departments on: acc.roots
\* is rootDepartments (ids, in push order), acc.children[k] the children
\* array of node k.  A row with a truthy parentId is pushed to its parent's
\* children when departmentMap has the parent; a row with a falsy parentId
\* is pushed to rootDepartments.
RECURSIVE HierarchyLoop(_, _, _)
HierarchyLoop(departments, i, acc) ==
    IF i > Len(departments) THEN acc
    ELSE
    LET dept == departments[i]
        ids == {departments[j].id : j \in 1..Len(departments)}
    IN  HierarchyLoop(departments, i + 1,
            IF ~Falsy(dept.parentId)
            THEN IF dept.parentId \in ids
                 THEN [acc EXCEPT !.children[dept.parentId] = Append(@, dept.id)]
                 ELSE acc
            ELSE [acc EXCEPT !.roots = Append(@, dept.id)])

\* The first loop of getHierarchy: departmentMap, each node with the
\* userCount its row came with (dept._count.users); the children arrays
\* are kept in acc.children of the second loop.
DepartmentMap(departments) ==
    [k \in {departments[j].id : j \in 1..Len(departments)} |->
        LET dept == departments[CHOOSE j \in 1..Len(departments) :
                                    departments[j].id = k]
        IN  [id |-> dept.id, parentId |-> dept.parentId, userCount |-> dept.users]]

\* DepartmentRepository.getHierarchy on the rows findMany returned
GetHierarchy(departments) ==
    HierarchyLoop(departments, 1,
        [roots |-> <<>>,
         children |-> [k \in {departments[j].id : j \in 1..Len(departments)} |-> <<>>],
         nodes |-> DepartmentMap(departments)])

\* Flat lists: up to MaxDept rows with distinct ids, each parentId null, the
\* id of a department (in the list or not) or an id no department has.
FlatDepartmentLists ==
    UNION {{l \in [1..n -> [id : DeptId, parentId : DeptId \cup {NULL, GHOST},
                             users : {0}]] :
                \A i, j \in 1..n : i # j => l[i].id # l[j].id} :
           n \in 0..MaxDept}

\* export getDepartmentHierarchy(), findMany having returned call.departments
getDepartmentHierarchy ==
    /\ call.op = "none"
    /\ call' = [call EXCEPT !.op = "getDepartmentHierarchy"]
    /\ result' = [success |-> TRUE, code |-> UNDEF,
                  data |-> GetHierarchy(call.departments)]
    /\ UNCHANGED <<db, pre, proc, chain, revalidated>>

InitHierarchy ==
    /\ db = EmptyDb
    /\ pre = EmptyDb
    /\ call \in {[op |-> "none", departments |-> l] : l \in FlatDepartmentLists}
    /\ result = Ok
    /\ proc = EmptyTable
    /\ chain = EmptyTable
    /\ revalidated = <<>>

NextHierarchy == getDepartmentHierarchy

\* getHierarchy applied to any flat list.
SpecHierarchy == InitHierarchy /\ [][NextHierarchy]_vars

-----------------------------------------------------------------------------
(* addMember requests in flight together                                    *)
(* proc[p] is request p: where it stands (pc), its dto, the role of the     *)
(* row its findMember returned (seen, null when there was none), whether it *)
(* passed findMember while the other request had passed it for the same     *)
(* pair and not yet written (raced), and its result.  Each client sends one *)
(* request.                                                                 *)

NoAddRequest ==
    [pc |-> "idle", dto |-> NULL, seen |-> NULL, raced |-> FALSE, result |-> Ok,
     revalidated |-> <<>>]

ConcAddMemberDTOs ==
    [organizationId : OrgId, userId : OrgUser, role : {UNDEF, "ADMIN"}]

\* addMember is called and repository.findMember answers.
ConcFindMember(p) ==
    \E dto \in ConcAddMemberDTOs :
        /\ proc[p].pc = "idle"
        /\ LET key == <<dto.organizationId, dto.userId>>
               q == OtherProc(p)
               r == [NoAddRequest EXCEPT !.dto = dto]
               race == proc[q].pc = "addMember" /\ proc[q].dto.organizationId = key[1]
                                               /\ proc[q].dto.userId = key[2]
           IN  proc' =
                   IF key \in DOMAIN db.organizationMember
                   THEN [proc EXCEPT ![p] =
                            [r EXCEPT !.pc = "returned",
                                      !.seen = db.organizationMember[key].role,
                                      !.result = Fail("ALREADY_MEMBER")]]
                   ELSE [proc EXCEPT ![p] = [r EXCEPT !.pc = "addMember",
                                                      !.raced = race],
                                     ![q] = [proc[q] EXCEPT !.raced = @ \/ race]]
        /\ UNCHANGED <<db, pre, call, result, chain, revalidated>>

\* repository.addMember writes, and the request returns.
ConcAddMember(p) ==
    /\ proc[p].pc = "addMember"
    /\ LET r == proc[p]
           w == OrganizationRepositoryAddMember(db, r.dto)
       IN  /\ db' = w.db
           /\ proc' = [proc EXCEPT ![p] =
                  [r EXCEPT !.pc = "returned",
                            !.result = IF w.threw THEN Fail("ADD_MEMBER_ERROR")
                                       ELSE Ok,
                            !.revalidated = IF w.threw THEN <<>>
                                            ELSE <<OrganizationsPath>>]]
    /\ UNCHANGED <<pre, call, result, chain, revalidated>>

InitMemberConc ==
    /\ db = StagedDb
    /\ pre = StagedDb
    /\ call = Idle
    /\ result = Ok
    /\ proc = [p \in ProcId |-> NoAddRequest]
    /\ chain = EmptyTable
    /\ revalidated = <<>>

NextMemberConc == \E p \in ProcId : ConcFindMember(p) \/ ConcAddMember(p)

\* Two clients each calling addMember, their store calls interleaved.
SpecMemberConc == InitMemberConc /\ [][NextMemberConc]_vars

-----------------------------------------------------------------------------
(* The ancestor walks, one loop iteration at a time                         *)
(* A walk w is the loop's state: current (currentParentId /                 *)
(* currentManagerId), visitedIds, the ids passed to findUnique so far       *)
(* (lookups), whether it has returned, and what it returned (cycle).        *)

NewWalk(candidate, proposedParent) ==
    [current |-> proposedParent, visitedIds |-> {candidate}, lookups |-> <<>>,
     returned |-> FALSE, cycle |-> FALSE]

\* CircularHierarchyValidationStrategy.validate, one pass of its while loop
DepartmentWalkIteration(d, w) ==
    IF Falsy(w.current) THEN [w EXCEPT !.returned = TRUE, !.cycle = FALSE]
    ELSE IF w.current \in w.visitedIds
    THEN [w EXCEPT !.returned = TRUE, !.cycle = TRUE]
    ELSE [w EXCEPT !.visitedIds = @ \cup {w.current},
                   !.lookups = Append(@, w.current),
                   !.current = IF w.current \in DOMAIN d.department
                               THEN d.department[w.current].parentId
                               ELSE NULL]

\* (a bug the termination claim must detect: visitedIds.add left out, so a
\* cycle that does not pass through the candidate is walked for ever)
UserWalkIteration_NoVisitedAdd(d, w) ==
    IF Falsy(w.current) THEN [w EXCEPT !.returned = TRUE, !.cycle = FALSE]
    ELSE IF w.current \in w.visitedIds
    THEN [w EXCEPT !.returned = TRUE, !.cycle = TRUE]
    ELSE IF w.current \notin DOMAIN d.user
    THEN [w EXCEPT !.lookups = Append(@, w.current),
                   !.returned = TRUE, !.cycle = FALSE]
    ELSE [w EXCEPT !.lookups = Append(@, w.current),
                   !.current = d.user[w.current].managerId]

\* HierarchyValidationStrategy.checkCircularReference, one pass of its
\* while loop
UserWalkIteration(d, w) ==
    IF Falsy(w.current) THEN [w EXCEPT !.returned = TRUE, !.cycle = FALSE]
    ELSE IF w.current \in w.visitedIds
    THEN [w EXCEPT !.returned = TRUE, !.cycle = TRUE]
    ELSE IF w.current \notin DOMAIN d.user
    THEN [w EXCEPT !.visitedIds = @ \cup {w.current},
                   !.lookups = Append(@, w.current),
                   !.returned = TRUE, !.cycle = FALSE]
    ELSE [w EXCEPT !.visitedIds = @ \cup {w.current},
                   !.lookups = Append(@, w.current),
                   !.current = d.user[w.current].managerId]

\* Parent maps over the ids of DeptId: each id has no row, is a root, or
\* refers to an id (its own, one with a row, or one without).
ParentMaps ==
    UNION {[S -> DeptId \cup {NULL}] : S \in SUBSET DeptId}

\* The store holding the map m as department rows and, the same map, as
\* user rows.
WalkDb(m) ==
    [EmptyDb EXCEPT
        !.department = [k \in DOMAIN m |-> [parentId |-> m[k]]],
        !.user = [k \in DOMAIN m |-> [managerId |-> m[k]]]]

\* Both validations are asked about the same (candidate, proposedParent).
validateHierarchy ==
    /\ call.op = "none"
    /\ call' = [call EXCEPT !.op = "validate"]
    /\ result' = [success |-> TRUE, code |-> UNDEF,
                  department |-> CircularHierarchyValidate(
                                    db, call.candidate, call.proposedParent),
                  user |-> CheckCircularReference(
                                    db, call.candidate, call.proposedParent)]
    /\ UNCHANGED <<db, pre, proc, chain, revalidated>>

\* The department walk goes through its loop once more.
departmentWalkStep ==
    /\ call.op = "validate"
    /\ ~call.department.returned
    /\ call' = [call EXCEPT !.department = DepartmentWalkIteration(db, @)]
    /\ UNCHANGED <<db, pre, result, proc, chain, revalidated>>

\* The manager walk goes through its loop once more.
userWalkStep ==
    /\ call.op = "validate"
    /\ ~call.user.returned
    /\ call' = [call EXCEPT !.user = UserWalkIteration(db, @)]
    /\ UNCHANGED <<db, pre, result, proc, chain, revalidated>>

InitWalk ==
    /\ \E m \in ParentMaps : db = WalkDb(m) /\ pre = WalkDb(m)
    /\ call \in {[op |-> "none", candidate |-> c, proposedParent |-> pp,
                   department |-> NewWalk(c, pp), user |-> NewWalk(c, pp)] :
                        c \in DeptId, pp \in DeptId}
    /\ result = Ok
    /\ proc = EmptyTable
    /\ chain = EmptyTable
    /\ revalidated = <<>>

NextWalk == validateHierarchy \/ departmentWalkStep \/ userWalkStep

\* The two ancestor walks on every parent map over DeptId.
SpecWalk == InitWalk /\ [][NextWalk]_vars

\* The walks are awaited by their callers and every findUnique answers, so
\* a walk that can go on does.
SpecWalkFair ==
    SpecWalk /\ WF_vars(departmentWalkStep) /\ WF_vars(userWalkStep)
                /\ WF_vars(validateHierarchy)

-----------------------------------------------------------------------------
(* The permission gate on its own                                           *)

\* Stores with organizations o1 and o2, users u1 and u2, and any membership
\* table over them.
MembershipDbs ==
    {[TwoUsersDb EXCEPT
        !.organization =
            [o \in {"o1", "o2"} |->
                [name |-> <<"O">>, slug |-> IF o = "o1" THEN <<"a">> ELSE <<"b">>,
                 logo |-> NullT]],
        !.organizationMember = [k \in S |-> [role |-> roleOf[k]]]] :
     S \in SUBSET ({"o1", "o2"} \X OrgUser),
     roleOf \in [{"o1", "o2"} \X OrgUser -> {"OWNER", "ADMIN", "MEMBER"}]}

\* PermissionValidationStrategy.validate({organizationId, userId,
\* requiredRoles}) is called.
validatePermission ==
    \E o \in {"o1", "o2"}, u \in OrgUser, requiredRoles \in SUBSET OrgRoles :
        /\ call.op = "none"
        /\ call' = [op |-> "validate", organizationId |-> o, userId |-> u,
                    requiredRoles |-> requiredRoles]
        /\ result' = PermissionValidate(db, o, u, requiredRoles)
        /\ pre' = db
        /\ UNCHANGED <<db, proc, chain, revalidated>>

InitPermission ==
    /\ db \in MembershipDbs
    /\ pre = db
    /\ call = Idle
    /\ result = Ok
    /\ proc = EmptyTable
    /\ chain = EmptyTable
    /\ revalidated = <<>>

NextPermission == validatePermission

\* The permission gate asked about every (organization, user, roles) on
\* every membership table.
SpecPermission == InitPermission /\ [][NextPermission]_vars

-----------------------------------------------------------------------------
(* deleteDepartment and createDepartment requests in flight together        *)
(* proc[p] is request p: its operation (op), where it stands (pc), the id   *)
(* it deletes or the dto it creates, and its result.                        *)

NoDepartmentRequest ==
    [op |-> "none", pc |-> "idle", id |-> NULL, dto |-> NULL, result |-> Ok,
     revalidated |-> <<>>]

ConcCreateDepartmentDTOs ==
    [name : {<<"E">>}, description : {UndefT}, parentId : DeptId \cup {NULL}]

\* deleteDepartment is called: repository.findById answers and the
\* NOT_FOUND, HAS_USERS and HAS_CHILDREN tests run on what it returned.
ConcDeleteRead(p) ==
    \E id \in DeptId :
        /\ proc[p].pc \in {"idle", "returned"}
        /\ LET r == [NoDepartmentRequest EXCEPT !.op = "deleteDepartment",
                                                !.id = id]
               v == DeleteDepartmentOp(db, id).result
           IN  proc' = [proc EXCEPT ![p] =
                   IF ~v.success THEN [r EXCEPT !.pc = "returned", !.result = v]
                   ELSE [r EXCEPT !.pc = "delete"]]
        /\ UNCHANGED <<db, pre, call, result, chain, revalidated>>

\* repository.delete writes (the store applying department_parentId_fkey
\* and user_departmentId_fkey), and the request returns.
ConcDelete(p) ==
    /\ proc[p].pc = "delete"
    /\ LET r == proc[p]
           threw == r.id \notin DOMAIN db.department
       IN  /\ db' = IF threw THEN db ELSE DeleteDepartmentRow(db, r.id)
           /\ proc' = [proc EXCEPT ![p] =
                  [r EXCEPT !.pc = "returned",
                            !.result = IF threw THEN Fail("DELETE_ERROR") ELSE Ok,
                            !.revalidated = IF threw THEN <<>>
                                            ELSE <<DepartmentsPath>>]]
    /\ UNCHANGED <<pre, call, result, chain, revalidated>>

\* createDepartment is called: RequiredNameHandler and
\* ParentExistenceHandler (its findUnique) run.
ConcCreateDepartmentRead(p) ==
    \E dto \in ConcCreateDepartmentDTOs :
        /\ proc[p].pc \in {"idle", "returned"}
        /\ LET r == [NoDepartmentRequest EXCEPT !.op = "createDepartment",
                                                !.dto = dto]
               v == DeptHandle(<<"RequiredNameHandler", "ParentExistenceHandler">>,
                               db, dto)
           IN  proc' = [proc EXCEPT ![p] =
                   IF ~v.success THEN [r EXCEPT !.pc = "returned", !.result = v]
                   ELSE [r EXCEPT !.pc = "create"]]
        /\ UNCHANGED <<db, pre, call, result, chain, revalidated>>

\* repository.create writes (under a random id), and the request returns.
ConcCreateDepartment(p) ==
    \E newId \in DeptId :
        /\ proc[p].pc = "create"
        /\ newId \notin DOMAIN db.department
        /\ LET r == proc[p]
               w == DepartmentRepositoryCreate(db, r.dto, newId)
           IN  /\ db' = w.db
               /\ proc' = [proc EXCEPT ![p] =
                      [r EXCEPT !.pc = "returned",
                                !.result = IF w.threw THEN Fail("CREATE_ERROR")
                                           ELSE Ok,
                                !.revalidated = IF w.threw THEN <<>>
                                                ELSE <<DepartmentsPath>>]]
        /\ UNCHANGED <<pre, call, result, chain, revalidated>>

InitDeleteConc ==
    /\ db = StagedDb
    /\ pre = StagedDb
    /\ call = Idle
    /\ result = Ok
    /\ proc = [p \in ProcId |-> NoDepartmentRequest]
    /\ chain = EmptyTable
    /\ revalidated = <<>>

NextDeleteConc ==
    \E p \in ProcId :
        \/ ConcDeleteRead(p)
        \/ ConcDelete(p)
        \/ ConcCreateDepartmentRead(p)
        \/ ConcCreateDepartment(p)

\* Two clients calling deleteDepartment and createDepartment, their store
\* calls interleaved.
SpecDeleteConc == InitDeleteConc /\ [][NextDeleteConc]_vars

-----------------------------------------------------------------------------
(* getHierarchy on the rows of a store                                      *)

\* db.department.findMany({include: {_count: {select: {users: true}}}}):
\* the department rows in the order the store returns them, each with the
\* number of users whose departmentId is its id.
FindManyDepartments(d, order) ==
    [i \in 1..Len(order) |->
        [id |-> order[i],
         parentId |-> d.department[order[i]].parentId,
         users |-> Cardinality({u \in DOMAIN d.user :
                                    d.user[u].departmentId = order[i]})]]

\* The store in which the departments DOMAIN m refer to each other or to
\* nothing as m says (department_parentId_fkey) and users u1, u2 are
\* assigned to one of them or to none as a says (user_departmentId_fkey).
TreeDb(m, a) ==
    [TwoUsersDb EXCEPT
        !.department =
            [k \in DOMAIN m |-> [name |-> <<"E">>, description |-> NullT,
                                 parentId |-> m[k]]],
        !.user = [u \in OrgUser |->
                    [TwoUsersDb.user[u] EXCEPT !.departmentId = a[u]]]]

\* The orders in which the rows of table t can come back.
RowOrders(t) ==
    {o \in [1..Cardinality(DOMAIN t) -> DOMAIN t] :
        \A i, j \in DOMAIN o : i # j => o[i] # o[j]}

InitTree ==
    /\ \E S \in SUBSET DeptId :
        \E m \in [S -> S \cup {NULL}], a \in [OrgUser -> S \cup {NULL}] :
            /\ db = TreeDb(m, a)
            /\ pre = TreeDb(m, a)
            /\ \E o \in RowOrders(m) :
                    call = [op |-> "none",
                            departments |-> FindManyDepartments(TreeDb(m, a), o)]
    /\ result = Ok
    /\ proc = EmptyTable
    /\ chain = EmptyTable
    /\ revalidated = <<>>

NextTree == getDepartmentHierarchy

\* getHierarchy applied to what findMany returns from any store.
SpecTree == InitTree /\ [][NextTree]_vars

-----------------------------------------------------------------------------
(* Department names                                                         *)

\* What a name key can hold: no key, undefined, null, empty, white space,
\* and a name.
DepartmentNameInputs == {AbsentT, UndefT, NullT, <<>>, <<" ">>, <<"F">>}

NamedCreateDepartmentDTOs ==
    [name : DepartmentNameInputs, description : {AbsentT}, parentId : {UNDEF}]

NamedUpdateDepartmentDTOs ==
    [id : {"d2", "d3"}, name : DepartmentNameInputs,
     description : {AbsentT, <<"t">>}, parentId : {UNDEF}]

\* export createDepartment(dto), the DTO carrying any name
createDepartmentNamed ==
    \E dto \in NamedCreateDepartmentDTOs, newId \in DeptId :
        /\ newId \notin DOMAIN db.department
        /\ Serve([op |-> "createDepartment", dto |-> dto],
                 CreateDepartmentOp(db, dto, newId))

\* export updateDepartment(dto), the DTO carrying any name or none
updateDepartmentNamed ==
    \E dto \in NamedUpdateDepartmentDTOs :
        Serve([op |-> "updateDepartment", dto |-> dto], UpdateDepartmentOp(db, dto))

InitNames == InitStages

NextNames == createDepartmentNamed \/ updateDepartmentNamed

\* createDepartment and updateDepartment with every kind of name.
SpecNames == InitNames /\ [][NextNames]_vars

-----------------------------------------------------------------------------
(* Requests naming parents and managers that exist, or do not               *)

ReferringCreateDepartmentDTOs ==
    [name : {<<"E">>}, description : {AbsentT}, parentId : {UNDEF, "d2", GHOST}]

ReferringUpdateDepartmentDTOs ==
    [id : {"d2", "d3"}, name : {AbsentT}, description : {AbsentT},
     parentId : {NULL, "d1", "d3", GHOST}]

ReferringCreateUserDTOs ==
    [name : {<<"N">>}, email : {EmailA}, password : {GoodPassword},
     role : {UNDEF}, status : {UNDEF}, departmentId : {UNDEF},
     managerId : {UNDEF, "u1", GHOST}]

ReferringUpdateUserDTOs ==
    {[BareUpdateUserDTO(id) EXCEPT !.managerId = m] :
        id \in {"u2", "u3"}, m \in {NULL, "u1", "u3", GHOST}}

\* export createDepartment(dto), under a parent that may not exist
createDepartmentReferring ==
    \E dto \in ReferringCreateDepartmentDTOs, newId \in DeptId :
        /\ newId \notin DOMAIN db.department
        /\ Serve([op |-> "createDepartment", dto |-> dto],
                 CreateDepartmentOp(db, dto, newId))

\* export updateDepartment(dto), to a parent that may not exist
updateDepartmentReferring ==
    \E dto \in ReferringUpdateDepartmentDTOs :
        Serve([op |-> "updateDepartment", dto |-> dto], UpdateDepartmentOp(db, dto))

\* export createUser(dto), under a manager that may not exist
createUserReferring ==
    \E dto \in ReferringCreateUserDTOs, newId \in UserId :
        /\ newId \notin DOMAIN db.user
        /\ Serve([op |-> "createUser", dto |-> dto], CreateUserOp(db, dto, newId))

\* export updateUser(dto), to a manager that may not exist
updateUserReferring ==
    \E dto \in ReferringUpdateUserDTOs :
        Serve([op |-> "updateUser", dto |-> dto], UpdateUserOp(db, dto))

InitReferences == InitStages

NextReferences ==
    \/ createDepartmentReferring
    \/ updateDepartmentReferring
    \/ deleteDepartment
    \/ createUserReferring
    \/ updateUserReferring
    \/ deleteUser

\* Departments and users created, moved and deleted, one request at a time.
SpecReferences == InitReferences /\ [][NextReferences]_vars

-----------------------------------------------------------------------------
(* Organization slugs                                                       *)

SlugUpdateOrganizationDTOs ==
    [id : {"o1", "o2"}, name : {UndefT},
     slug : {UndefT, <<>>, <<"b">>, <<"A">>, <<"b", "-", "2">>}, logo : {UndefT}]

\* export updateOrganization(dto), the DTO carrying any slug or none
updateOrganizationSlug ==
    \E dto \in SlugUpdateOrganizationDTOs :
        Serve([op |-> "updateOrganization", dto |-> dto],
              UpdateOrganizationOp(db, dto))

InitSlugs == InitStages

NextSlugs == createOrganizationStaged \/ updateOrganizationSlug

\* createOrganization and updateOrganization with every kind of slug.
SpecSlugs == InitSlugs /\ [][NextSlugs]_vars

-----------------------------------------------------------------------------
(* E-mail addresses in capitals and in small letters                        *)

EmailBUpper == <<"B", "@", "x", ".", "c">>

CasedCreateUserDTOs ==
    [name : {<<"N">>}, email : {EmailA, EmailAUpper, EmailBUpper},
     password : {GoodPassword}, role : {UNDEF}, status : {UNDEF},
     departmentId : {UNDEF}, managerId : {UNDEF}]

CasedUpdateUserDTOs ==
    {[BareUpdateUserDTO(id) EXCEPT !.email = e] :
        id \in UserId, e \in {UndefT, EmailA, EmailAUpper, EmailBUpper}}

\* export createUser(dto), the address in either case
createUserCased ==
    \E dto \in CasedCreateUserDTOs, newId \in UserId :
        /\ newId \notin DOMAIN db.user
        /\ Serve([op |-> "createUser", dto |-> dto], CreateUserOp(db, dto, newId))

\* export updateUser(dto), the address in either case
updateUserCased ==
    \E dto \in CasedUpdateUserDTOs :
        Serve([op |-> "updateUser", dto |-> dto], UpdateUserOp(db, dto))

InitEmails == InitStages

NextEmails == createUserCased \/ updateUserCased

\* createUser and updateUser with addresses that differ in letter case.
SpecEmails == InitEmails /\ [][NextEmails]_vars

-----------------------------------------------------------------------------
(* updateUserStatus, banUser and unbanUser                                  *)

\* UserRepository.updateStatus
UserRepositoryUpdateStatus(d, id, status) ==
    UserRepositoryUpdate(d, id, [BareUpdateUserDTO(id) EXCEPT !.status = status])

\* (a bug the ban claim must detect: banExpires passed on as given, so a ban
\* without expiresAt leaves the column as it was)
UserRepositoryBanUser_ExpiresAsGiven(d, id, reason, expiresAt) ==
    UserRepositoryUpdate(d, id,
        [BareUpdateUserDTO(id) EXCEPT
            !.banned = "true", !.banReason = reason,
            !.banExpires = expiresAt, !.status = "SUSPENDED"])

\* UserRepository.banUser
UserRepositoryBanUser(d, id, reason, expiresAt) ==
    UserRepositoryUpdate(d, id,
        [BareUpdateUserDTO(id) EXCEPT
            !.banned = "true", !.banReason = reason,
            !.banExpires = IF expiresAt \in {UNDEF, NULL} THEN NULL ELSE expiresAt,
            !.status = "SUSPENDED"])

\* UserRepository.unbanUser
UserRepositoryUnbanUser(d, id) ==
    UserRepositoryUpdate(d, id,
        [BareUpdateUserDTO(id) EXCEPT
            !.banned = "false", !.banReason = NullT,
            !.banExpires = NULL, !.status = "ACTIVE"])

\* UserService.updateUserStatus
UpdateUserStatusOp(d, id, status) ==
    LET w == UserRepositoryUpdateStatus(d, id, status)
    IN  IF w.threw THEN Out(d, Fail("UPDATE_STATUS_ERROR"))
        ELSE Revalidate(UsersPath, Out(w.db, Ok))

\* UserService.banUser
BanUserOp(d, id, reason, expiresAt) ==
    LET w == UserRepositoryBanUser(d, id, reason, expiresAt)
    IN  IF w.threw THEN Out(d, Fail("BAN_ERROR"))
        ELSE Revalidate(UsersPath, Out(w.db, Ok))

\* UserService.unbanUser
UnbanUserOp(d, id) ==
    LET w == UserRepositoryUnbanUser(d, id)
    IN  IF w.threw THEN Out(d, Fail("UNBAN_ERROR"))
        ELSE Revalidate(UsersPath, Out(w.db, Ok))

BanReasons == {<<"r">>, <<>>}
BanExpiries == {UNDEF, "2027-01-01"}

\* export updateUserStatus(id, status)
updateUserStatus ==
    \E id \in UserId, status \in UserStatuses :
        Serve([op |-> "updateUserStatus", id |-> id, status |-> status],
              UpdateUserStatusOp(db, id, status))

\* export banUser(id, reason, expiresAt?)
banUser ==
    \E id \in UserId, reason \in BanReasons, expiresAt \in BanExpiries :
        Serve([op |-> "banUser", id |-> id, reason |-> reason,
               expiresAt |-> expiresAt],
              BanUserOp(db, id, reason, expiresAt))

\* export unbanUser(id)
unbanUser ==
    \E id \in UserId :
        Serve([op |-> "unbanUser", id |-> id], UnbanUserOp(db, id))

InitBans == InitOrg

NextBans == updateUserStatus \/ banUser \/ unbanUser

\* Status changes, bans and unbans of two users, requests served one at a
\* time.
SpecBans == InitBans /\ [][NextBans]_vars

-----------------------------------------------------------------------------
(* Invitations that already exist, in every status                          *)

InvitationStatuses == {"PENDING", "ACCEPTED", "REJECTED", "EXPIRED"}

\* The store of InvitingDb with an invitation of a@x.c to o1 that expired at
\* day 0, in the given status.
InvitedDb(status) ==
    [InvitingDb EXCEPT
        !.organizationInvitation =
            [k \in {<<"o1", EmailA>>} |->
                [role |-> "MEMBER", inviterId |-> "u1", expiresAt |-> 0,
                 status |-> status]]]

InitPairs ==
    /\ \E d \in {InvitingDb} \cup {InvitedDb(st) : st \in InvitationStatuses} :
            db = d /\ pre = d
    /\ call = Idle
    /\ result = Ok
    /\ proc = EmptyTable
    /\ chain = EmptyTable
    /\ revalidated = <<>>

NextPairs == inviteMember \/ deleteOrganization

\* inviteMember against invitation rows of every status, and the deletion of
\* the organization, requests served one at a time.
SpecPairs == InitPairs /\ [][NextPairs]_vars

-----------------------------------------------------------------------------
(* Claims *)

\* C1: served one at a time, createDepartment, updateDepartment and
\* deleteDepartment keep the parentId graph free of cycles: no department
\* is its own ancestor.
C1_DeptAcyclic == AcyclicMap(DeptParentOf(db))

\* C1 happens: a successful updateDepartment has put a department under a
\* parent that itself has a parent.
C1_Witness ==
    /\ call.op = "updateDepartment"
    /\ result.success
    /\ call.dto.parentId \in DOMAIN db.department
    /\ db.department[call.dto.id].parentId = call.dto.parentId
    /\ pre.department[call.dto.id].parentId # call.dto.parentId
    /\ db.department[call.dto.parentId].parentId \in DOMAIN db.department

\* C3: with two updateDepartment requests in flight together, their store
\* reads and writes interleaved, the parentId graph is acyclic in every
\* reachable state.
C3_DeptAcyclicInterleaved == AcyclicMap(DeptParentOf(db))

\* The case of C4: updateDepartment({id: A, parentId: P}) where A exists
\* and P is A or a transitive descendant of A in the store the call sees.
C4_Case ==
    /\ call.op = "updateDepartment"
    /\ call.dto.name = AbsentT
    /\ call.dto.description = AbsentT
    /\ call.dto.id \in DOMAIN pre.department
    /\ \/ call.dto.parentId = call.dto.id
       \/ IsDescendant(DeptParentOf(pre), call.dto.parentId, call.dto.id)

\* C4: updateDepartment({id: A, parentId: P}) with P = A or P a transitive
\* descendant of A returns success=false with code CIRCULAR_HIERARCHY and
\* leaves the whole department table as it was.
C4_RejectedReparenting ==
    C4_Case => (result = Fail("CIRCULAR_HIERARCHY") /\ db = pre)

\* C4 happens: the rejected P is a descendant of A two levels down.
C4_Witness ==
    /\ C4_Case
    /\ call.dto.parentId # call.dto.id
    /\ pre.department[call.dto.parentId].parentId # call.dto.id
    /\ result.code = "CIRCULAR_HIERARCHY"


\* C2: served one at a time, createUser (with or without managerId),
\* updateUser and deleteUser keep the managerId graph free of cycles.
C2_UserAcyclic == AcyclicMap(UserManagerOf(db))

\* C2 happens: a successful updateUser has put a user under a manager who
\* has a manager.
C2_Witness ==
    /\ call.op = "updateUser"
    /\ result.success
    /\ call.dto.managerId \in DOMAIN db.user
    /\ pre.user[call.dto.id].managerId # call.dto.managerId
    /\ db.user[call.dto.id].managerId = call.dto.managerId
    /\ db.user[call.dto.managerId].managerId \in DOMAIN db.user

\* The cases of C5, in the store the call sees.
C5_SelfCase ==
    /\ call.op = "updateUser"
    /\ call.dto.id \in DOMAIN pre.user
    /\ call.dto.managerId = call.dto.id

C5_SubordinateCase ==
    /\ call.op = "updateUser"
    /\ call.dto.id \in DOMAIN pre.user
    /\ call.dto.managerId # call.dto.id
    /\ IsDescendant(UserManagerOf(pre), call.dto.managerId, call.dto.id)

\* C5: updateUser({id: U, managerId: U}) fails with CIRCULAR_REFERENCE and
\* updateUser({id: U, managerId: M}) with M a transitive subordinate of U
\* fails with CIRCULAR_HIERARCHY; in both cases no field of any user
\* changes, whatever other fields the DTO carries.
C5_RejectedManager ==
    /\ C5_SelfCase => (result = Fail("CIRCULAR_REFERENCE") /\ db = pre)
    /\ C5_SubordinateCase => (result = Fail("CIRCULAR_HIERARCHY") /\ db = pre)

\* C5 happens: a DTO that also carries name, role and status names a
\* subordinate two levels down as manager and is rejected.
C5_Witness ==
    /\ C5_SubordinateCase
    /\ call.dto.name = <<"M">>
    /\ pre.user[call.dto.managerId].managerId # call.dto.id
    /\ result.code = "CIRCULAR_HIERARCHY"

\* The number of OWNER memberships of organization o in store d.
OwnerCount(d, o) ==
    Cardinality({k \in DOMAIN d.organizationMember :
                    k[1] = o /\ d.organizationMember[k].role = "OWNER"})

\* C6: in every reachable state every organization that exists has at
\* least one membership with role OWNER, over createOrganization,
\* addMember, removeMember, updateMemberRole, deleteOrganization and
\* deleteUser (whose delete cascades to the user's memberships).
C6_OwnerInvariant ==
    \A o \in DOMAIN db.organization : OwnerCount(db, o) >= 1

\* The membership removeMember was called on, in the store the call saw.
C7_Key == <<call.organizationId, call.userId>>

\* C7: removeMember on a membership whose role is OWNER returns
\* CANNOT_REMOVE_OWNER, on a pair with no membership MEMBER_NOT_FOUND, and
\* in both cases the store is as it was.
C7_RemoveOwnerRejected ==
    call.op = "removeMember" =>
        /\ (C7_Key \in DOMAIN pre.organizationMember
                /\ pre.organizationMember[C7_Key].role = "OWNER")
            => (result = Fail("CANNOT_REMOVE_OWNER") /\ db = pre)
        /\ C7_Key \notin DOMAIN pre.organizationMember
            => (result = Fail("MEMBER_NOT_FOUND") /\ db = pre)

\* C7 happens: removeMember was called on an owner, in an organization
\* that has another member too.
C7_Witness ==
    /\ call.op = "removeMember"
    /\ C7_Key \in DOMAIN pre.organizationMember
    /\ pre.organizationMember[C7_Key].role = "OWNER"
    /\ result.code = "CANNOT_REMOVE_OWNER"
    /\ \E k \in DOMAIN pre.organizationMember :
            k[1] = call.organizationId /\ k # C7_Key

\* The role the store d holds for (o, u), "none" when it holds no such row.
RoleIn(d, o, u) ==
    IF <<o, u>> \in DOMAIN d.organizationMember
    THEN d.organizationMember[<<o, u>>].role
    ELSE "none"

\* The case of C8: updateMemberRole asks to turn an OWNER into ADMIN or
\* MEMBER, and the requester is an OWNER or ADMIN of the organization.
C8_Case ==
    /\ call.op = "updateMemberRole"
    /\ RoleIn(pre, call.organizationId, call.userId) = "OWNER"
    /\ call.role \in {"ADMIN", "MEMBER"}
    /\ RoleIn(pre, call.organizationId, call.requesterId) \in {"OWNER", "ADMIN"}

\* C8: in that case updateMemberRole returns CANNOT_CHANGE_OWNER_ROLE and
\* the store is as it was; and no removeMember or updateMemberRole call
\* leaves an organization with fewer OWNER memberships than it had.
C8_OwnerRoleKept ==
    /\ C8_Case => (result = Fail("CANNOT_CHANGE_OWNER_ROLE") /\ db = pre)
    /\ call.op \in {"removeMember", "updateMemberRole"} =>
            \A o \in OrgId : OwnerCount(db, o) >= OwnerCount(pre, o)

\* C8 happens: an ADMIN asked to demote the OWNER and was refused.
C8_Witness ==
    /\ C8_Case
    /\ RoleIn(pre, call.organizationId, call.requesterId) = "ADMIN"
    /\ result.code = "CANNOT_CHANGE_OWNER_ROLE"

\* The caller of a gated request holds no membership of the organization,
\* or the role MEMBER, in the store the call saw.
C9_NoPermission(o, u) == RoleIn(pre, o, u) \in {"none", "MEMBER"}

\* C9: updateMemberRole and inviteMember by a requester with no membership
\* or with role MEMBER return INSUFFICIENT_PERMISSIONS and write nothing,
\* whatever the mutation-specific tests would have said.
C9_GateFirst ==
    /\ (call.op = "updateMemberRole"
            /\ C9_NoPermission(call.organizationId, call.requesterId))
        => (result = Fail("INSUFFICIENT_PERMISSIONS") /\ db = pre)
    /\ (call.op = "inviteMember"
            /\ C9_NoPermission(call.dto.organizationId, call.dto.inviterId))
        => (result = Fail("INSUFFICIENT_PERMISSIONS") /\ db = pre)

\* C9 happens: a MEMBER invited an address that has a PENDING invitation
\* and got INSUFFICIENT_PERMISSIONS, not INVITATION_EXISTS.
C9_Witness ==
    /\ call.op = "inviteMember"
    /\ RoleIn(pre, call.dto.organizationId, call.dto.inviterId) = "MEMBER"
    /\ InvitationKey(call.dto.organizationId, call.dto.email)
            \in DOMAIN pre.organizationInvitation
    /\ result.code = "INSUFFICIENT_PERMISSIONS"

\* The first handler of the chain whose validate fails, 0 when none does.
FirstFailure ==
    IF \A i \in 1..Len(chain.results) : chain.results[i].success THEN 0
    ELSE CHOOSE i \in 1..Len(chain.results) :
            /\ ~chain.results[i].success
            /\ \A j \in 1..(i - 1) : chain.results[j].success

\* C10: handle() calls the validators in registration order, stops at the
\* first one that fails and returns that result (same code and error)
\* without calling any later validator; when all succeed it returns
\* success=true.
C10_ShortCircuit ==
    /\ chain.invoked = [i \in 1..Len(chain.invoked) |-> i]
    /\ FirstFailure # 0 => Len(chain.invoked) <= FirstFailure
    /\ chain.phase = "returned" =>
        IF FirstFailure = 0
        THEN /\ chain.out = [success |-> TRUE]
             /\ Len(chain.invoked) = Len(chain.results)
        ELSE /\ chain.out = chain.results[FirstFailure]
             /\ ~chain.out.success
             /\ Len(chain.invoked) = FirstFailure

\* C10 happens: in a chain of three the second handler failed and handle
\* returned, with a third handler that would have failed differently.
C10_Witness ==
    /\ chain.phase = "returned"
    /\ Len(chain.results) = 3
    /\ FirstFailure = 2
    /\ ~chain.results[3].success
    /\ chain.results[3].code # chain.results[2].code
    /\ chain.invoked = <<1, 2>>

\* The stages of createUser's chain that the request's input fails, each
\* taken alone on the store the call saw.
C11_UserStagesFailed ==
    {i \in 1..3 :
        ~UserHandlerValidate(<<"RequiredFieldsHandler", "EmailValidationHandler",
                               "PasswordValidationHandler">>[i],
                             pre, call.dto).success}

C11_DeptStagesFailed ==
    {i \in 1..3 :
        ~DeptHandlerValidate(<<"RequiredNameHandler", "ParentExistenceHandler",
                               "CircularHierarchyHandler">>[i],
                             pre, call.dto).success}

C11_OrgStagesFailed ==
    {i \in 1..3 :
        ~OrgHandlerValidate(<<"RequiredFieldsHandler", "SlugFormatHandler",
                              "UniqueSlugHandler">>[i],
                            pre, call.dto).success}

\* The earliest of a non-empty set of stages.
C11_Earliest(S) == CHOOSE i \in S : \A j \in S : i <= j

\* C11: when the input fails several stages, the code returned is one of
\* the earliest failed stage: createUser required fields, then e-mail,
\* then password; updateDepartment name, then parent existence, then
\* circular hierarchy; createOrganization required fields, then slug
\* format, then slug uniqueness.
C11_StageOrder ==
    /\ (call.op = "createUser" /\ C11_UserStagesFailed # {}) =>
            result.code \in
                <<{"REQUIRED_NAME", "REQUIRED_EMAIL"},
                  {"INVALID_EMAIL", "EMAIL_EXISTS"},
                  {"REQUIRED_PASSWORD", "PASSWORD_TOO_SHORT", "PASSWORD_WEAK"}
                >>[C11_Earliest(C11_UserStagesFailed)]
    /\ (call.op = "updateDepartment" /\ C11_DeptStagesFailed # {}) =>
            result.code =
                <<"REQUIRED_NAME", "PARENT_NOT_FOUND", "CIRCULAR_HIERARCHY"
                >>[C11_Earliest(C11_DeptStagesFailed)]
    /\ (call.op = "createOrganization" /\ C11_OrgStagesFailed # {}) =>
            result.code \in
                <<{"REQUIRED_NAME", "REQUIRED_SLUG"}, {"INVALID_SLUG"},
                  {"SLUG_EXISTS"}>>[C11_Earliest(C11_OrgStagesFailed)]

\* C11 happens: a createUser input failed all three stages and the code of
\* the first was returned.
C11_Witness ==
    /\ call.op = "createUser"
    /\ C11_UserStagesFailed = {1, 2, 3}
    /\ result.code = "REQUIRED_NAME"

\* C12: whenever createUser returns success=false, the users and the
\* accounts the store holds are those it held before the call.
C12_NoPartialCreate ==
    (call.op = "createUser" /\ ~result.success) =>
        /\ db.user = pre.user
        /\ db.account = pre.account

\* The table an update request writes, and what "defined" means for a DTO
\* field value.
C13_Table ==
    CASE call.op = "updateUser" -> "user"
      [] call.op = "updateDepartment" -> "department"
      [] call.op = "updateOrganization" -> "organization"

C13_Defined(f) ==
    IF f \in UserScalarFields \cup {"parentId"}
    THEN call.dto[f] # UNDEF
    ELSE call.dto[f] \notin {UndefT, AbsentT}

\* C13: a successful updateUser, updateDepartment or updateOrganization
\* writes, in the row dto.id, exactly the fields the DTO defines (null
\* included) with the DTO's values; the row's other fields, the table's
\* other rows and the other tables are as before.
C13_UpdateFrame ==
    (call.op \in {"updateUser", "updateDepartment", "updateOrganization"}
            /\ result.success) =>
        LET t == C13_Table
            id == call.dto.id
        IN  /\ \A x \in DOMAIN db \ {t} : db[x] = pre[x]
            /\ DOMAIN db[t] = DOMAIN pre[t]
            /\ \A k \in DOMAIN pre[t] \ {id} : db[t][k] = pre[t][k]
            /\ \A f \in DOMAIN pre[t][id] :
                    db[t][id][f] = IF C13_Defined(f)
                                   THEN call.dto[f]
                                   ELSE pre[t][id][f]

\* C13 happens: an updateDepartment that carries only a parentId went
\* through on a department that has a description.
C13_Witness ==
    /\ call.op = "updateDepartment"
    /\ result.success
    /\ call.dto.description = AbsentT
    /\ call.dto.parentId = NULL
    /\ pre.department[call.dto.id].parentId # NULL
    /\ pre.department[call.dto.id].description = <<"t">>
    /\ db.department[call.dto.id].description = <<"t">>

\* The same update request served once more, on the store the first call
\* left.
C14_Again ==
    CASE call.op = "updateUser" -> UpdateUserOp(db, call.dto)
      [] call.op = "updateDepartment" -> UpdateDepartmentOp(db, call.dto)
      [] call.op = "updateOrganization" -> UpdateOrganizationOp(db, call.dto)

\* C14: an update called a second time with the same DTO, nothing in
\* between, succeeds or fails as the first call did and leaves the store
\* as the first call left it.
C14_UpdateIdempotent ==
    call.op \in {"updateUser", "updateDepartment", "updateOrganization"} =>
        /\ C14_Again.result.success = result.success
        /\ C14_Again.db = db

\* C14 happens: an updateOrganization gave the organization a new slug, so
\* that a second call finds the slug taken, by the organization itself.
C14_Witness ==
    /\ call.op = "updateOrganization"
    /\ result.success
    /\ call.dto.slug = <<"b">>
    /\ pre.organization[call.dto.id].slug # <<"b">>
    /\ db.organization[call.dto.id].slug = <<"b">>

\* The users assigned to department id and its child departments, in
\* store d.
C15_Users(d, id) == {u \in DOMAIN d.user : d.user[u].departmentId = id}

C15_Children(d, id) ==
    {k \in DOMAIN d.department : d.department[k].parentId = id}

\* C15: deleteDepartment(D) of an existing D fails with HAS_USERS when D
\* has users, with HAS_CHILDREN when it has no users but has children,
\* both leaving the store as it was; otherwise it succeeds and removes D
\* and nothing else.
C15_DeleteDepartmentGuard ==
    (call.op = "deleteDepartment" /\ call.id \in DOMAIN pre.department) =>
        IF C15_Users(pre, call.id) # {}
        THEN result = Fail("HAS_USERS") /\ db = pre
        ELSE IF C15_Children(pre, call.id) # {}
        THEN result = Fail("HAS_CHILDREN") /\ db = pre
        ELSE /\ result.success
             /\ db = [pre EXCEPT !.department = Without(pre.department, {call.id})]

\* C15 happens: deleteDepartment was refused on a department that has both
\* users and children.
C15_Witness ==
    /\ call.op = "deleteDepartment"
    /\ call.id \in DOMAIN pre.department
    /\ C15_Users(pre, call.id) # {}
    /\ C15_Children(pre, call.id) # {}
    /\ result.code = "HAS_USERS"

\* The users whose manager is id, in store d.
C16_Subordinates(d, id) == {u \in DOMAIN d.user : d.user[u].managerId = id}

\* C16: deleteUser(U) on a user who manages somebody fails with
\* HAS_SUBORDINATES and leaves users and accounts as they were; hence a
\* successful deleteUser changes no remaining user's managerId.
C16_DeleteUserGuard ==
    call.op = "deleteUser" =>
        /\ C16_Subordinates(pre, call.id) # {} =>
                (result = Fail("HAS_SUBORDINATES") /\ db = pre)
        /\ result.success =>
                \A u \in DOMAIN db.user :
                    db.user[u].managerId = pre.user[u].managerId

\* C16 happens: deleteUser was refused on a manager who has an account.
C16_Witness ==
    /\ call.op = "deleteUser"
    /\ C16_Subordinates(pre, call.id) # {}
    /\ call.id \in pre.account
    /\ result.code = "HAS_SUBORDINATES"

\* C17: when two createOrganization requests with the same slug both pass
\* the uniqueness look-up before either writes, one of them is persisted
\* and the other returns success=false with code SLUG_EXISTS.
C17_RaceReportsSlugExists ==
    \A p \in DOMAIN proc :
        LET q == OtherProc(p)
        IN  (/\ proc[p].pc = "returned" /\ proc[q].pc = "returned"
             /\ proc[p].raced /\ proc[q].raced
             /\ proc[p].result.success)
            => proc[q].result = Fail("SLUG_EXISTS")

\* The invitation row an inviteMember request is about, in the store the
\* call saw.
C18_Key == <<call.dto.organizationId, ToLowerCase(call.dto.email)>>

\* The case of C18: an OWNER or ADMIN invites an address that, letter case
\* aside, has a PENDING invitation to the organization.
C18_Case ==
    /\ call.op = "inviteMember"
    /\ RoleIn(pre, call.dto.organizationId, call.dto.inviterId) \in {"OWNER", "ADMIN"}
    /\ C18_Key \in DOMAIN pre.organizationInvitation
    /\ pre.organizationInvitation[C18_Key].status = "PENDING"

\* C18: in that case inviteMember returns INVITATION_EXISTS, the existing
\* invitation keeps its role, inviterId, expiresAt and status, and no row
\* is added.
C18_DuplicateInvitationRejected ==
    C18_Case =>
        /\ result = Fail("INVITATION_EXISTS")
        /\ db.organizationInvitation = pre.organizationInvitation
        /\ db = pre

\* C18 happens: the second invitation differs from the pending one in
\* letter case, role and time, and is refused.
C18_Witness ==
    /\ C18_Case
    /\ call.dto.email # ToLowerCase(call.dto.email)
    /\ pre.organizationInvitation[C18_Key].role # "ADMIN"
    /\ call.dto.role = "ADMIN"
    /\ pre.organizationInvitation[C18_Key].expiresAt # call.now + InvitationDays
    /\ result.code = "INVITATION_EXISTS"

C20_StoreFaulted ==
    CASE call.op = "createOrganization" ->
            /\ OrgHandle(<<"RequiredFieldsHandler", "SlugFormatHandler",
                           "UniqueSlugHandler">>, pre, call.dto).success
            /\ \A newId \in OrgId \ DOMAIN pre.organization :
                    OrganizationRepositoryCreate(pre, call.dto, call.ownerId,
                                                 newId).threw
      [] call.op = "deleteOrganization" ->
            OrganizationRepositoryDelete(pre, call.id).threw
      [] call.op = "addMember" ->
            /\ <<call.dto.organizationId, call.dto.userId>>
                    \notin DOMAIN pre.organizationMember
            /\ OrganizationRepositoryAddMember(pre, call.dto).threw
      [] OTHER -> FALSE

\* C20: when a store call raises a fault, the operation returns
\* success=false with one of the codes CREATE_ERROR, UPDATE_ERROR,
\* DELETE_ERROR, FETCH_ERROR.
C20_FaultGetsInfrastructureCode ==
    C20_StoreFaulted =>
        /\ ~result.success
        /\ result.code \in {"CREATE_ERROR", "UPDATE_ERROR", "DELETE_ERROR",
                            "FETCH_ERROR"}

\* The collection path each mutation operation revalidates.
C21_Path ==
    CASE call.op \in {"createDepartment", "updateDepartment", "deleteDepartment"}
            -> DepartmentsPath
      [] call.op \in {"createUser", "updateUser", "deleteUser"} -> UsersPath
      [] OTHER -> OrganizationsPath

C22_Inserted(k) ==
    {p \in ProcId : /\ proc[p].pc = "returned"
                    /\ proc[p].result.success
                    /\ <<proc[p].dto.organizationId, proc[p].dto.userId>> = k}

\* C22: there is at most one membership row per (organization, user): a
\* pair that had a row got no second one, a pair that had none got at most
\* one insert, also when two addMember requests for it both passed
\* findMember before either wrote; an addMember whose findMember found the
\* pair returns ALREADY_MEMBER and the row keeps its role.
C22_MembershipUnique ==
    /\ \A k \in OrgId \X OrgUser :
            /\ Cardinality(C22_Inserted(k))
                    + (IF k \in DOMAIN StagedDb.organizationMember THEN 1 ELSE 0) <= 1
            /\ C22_Inserted(k) # {} => k \in DOMAIN db.organizationMember
    /\ \A p \in ProcId :
            proc[p].pc = "returned" /\ proc[p].seen # NULL
                => /\ proc[p].result = Fail("ALREADY_MEMBER")
                   /\ LET k == <<proc[p].dto.organizationId, proc[p].dto.userId>>
                      IN  /\ k \in DOMAIN db.organizationMember
                          /\ db.organizationMember[k].role = proc[p].seen

\* Both requests for (o1, u2) passed findMember before either wrote; one
\* inserted the row, the other was refused by the unique index.
C22_Witness ==
    /\ \A p \in ProcId : /\ proc[p].pc = "returned"
                          /\ proc[p].raced
                          /\ proc[p].dto.organizationId = "o1"
                          /\ proc[p].dto.userId = "u2"
    /\ \E p \in ProcId : /\ proc[p].result.success
                          /\ proc[OtherProc(p)].result = Fail("ADD_MEMBER_ERROR")

\* The candidate is the proposed parent or one of its transitive ancestors.
C23_Cycle ==
    \/ call.candidate = call.proposedParent
    \/ IsDescendant(DeptParentOf(db), call.proposedParent, call.candidate)

\* C23: on an acyclic parent map the department walk fails with
\* CIRCULAR_HIERARCHY, and the manager walk returns true, exactly when the
\* candidate is the proposed parent or one of its transitive ancestors; a
\* walk that ends at a root or at an id without a row reports no cycle; the
\* two walks agree.
C23_WalkResult ==
    call.op = "validate" /\ AcyclicMap(DeptParentOf(db)) =>
        /\ result.department = IF C23_Cycle THEN Fail("CIRCULAR_HIERARCHY") ELSE Ok
        /\ result.user = C23_Cycle
        /\ call.department.returned => call.department.cycle = C23_Cycle
        /\ call.user.returned => call.user.cycle = C23_Cycle

\* The candidate d1 is the grandparent of the proposed parent d3, and both
\* walks have reported the cycle.
C23_Witness ==
    /\ call.op = "validate"
    /\ AcyclicMap(DeptParentOf(db))
    /\ call.candidate = "d1" /\ call.proposedParent = "d3"
    /\ DeptParentOf(db) = [k \in {"d1", "d2", "d3"} |->
                              IF k = "d3" THEN "d2" ELSE IF k = "d2" THEN "d1" ELSE NULL]
    /\ result.department = Fail("CIRCULAR_HIERARCHY")
    /\ result.user
    /\ call.department.returned /\ call.user.returned

\* The number of parent references on the way up from id (0 for a root and
\* for an id without a row), followed for at most n hops.
RECURSIVE C24_Depth(_, _, _)
C24_Depth(parentOf, id, n) ==
    IF n = 0 \/ id \notin DOMAIN parentOf \/ Falsy(parentOf[id]) THEN 0
    ELSE 1 + C24_Depth(parentOf, parentOf[id], n - 1)

C24_NoRepeat(lookups) ==
    \A i, j \in 1..Len(lookups) : i # j => lookups[i] # lookups[j]

\* Every walk looks an id up at most once, and on an acyclic map at most
\* depth(proposedParent) + 1 times.
C24_LookupBound ==
    \A w \in {call.department, call.user} :
        /\ C24_NoRepeat(w.lookups)
        /\ AcyclicMap(DeptParentOf(db)) =>
                Len(w.lookups)
                    <= C24_Depth(DeptParentOf(db), call.proposedParent, MaxDept) + 1

\* C24: on every finite parent map, cyclic ones included, both ancestor
\* walks return; a walk looks each id up at most once, and on an acyclic
\* map at most depth(proposedParent) + 1 times.
C24_WalkTerminates ==
    /\ []C24_LookupBound
    /\ <>(call.department.returned /\ call.user.returned)

\* Both walks have returned on a map whose cycle d2 -> d3 -> d2 does not
\* pass through the candidate d1, after looking up d2 and d3 once each.
C24_Witness ==
    /\ call.candidate = "d1" /\ call.proposedParent = "d2"
    /\ DeptParentOf(db) = [k \in {"d2", "d3"} |-> IF k = "d2" THEN "d3" ELSE "d2"]
    /\ call.department.returned /\ call.department.cycle
    /\ call.user.returned /\ call.user.cycle
    /\ call.user.lookups = <<"d2", "d3">>

\* A membership row of the actor in the organization asked about, with a
\* role among the required ones.
C25_Granted ==
    \E k \in DOMAIN db.organizationMember :
        /\ k[1] = call.organizationId
        /\ k[2] = call.userId
        /\ db.organizationMember[k].role \in call.requiredRoles

\* C25: the permission gate returns success exactly when the actor has a
\* membership row in that organization whose role is one of requiredRoles,
\* and INSUFFICIENT_PERMISSIONS otherwise; a membership in another
\* organization does not count; the store is left as it was.
C25_PermissionGate ==
    call.op = "validate" =>
        /\ result = IF C25_Granted THEN Ok ELSE Fail("INSUFFICIENT_PERMISSIONS")
        /\ db = pre

\* u2 owns o2, has no membership in o1, and is refused on o1 although
\* OWNER is among the required roles.
C25_Witness ==
    /\ call.op = "validate"
    /\ call.organizationId = "o1" /\ call.userId = "u2"
    /\ "OWNER" \in call.requiredRoles
    /\ <<"o1", "u2">> \notin DOMAIN db.organizationMember
    /\ <<"o2", "u2">> \in DOMAIN db.organizationMember
    /\ db.organizationMember[<<"o2", "u2">>].role = "OWNER"
    /\ result = Fail("INSUFFICIENT_PERMISSIONS")

\* C26: with deleteDepartment and createDepartment interleaved, a
\* department row is deleted only at a moment when no department has it as
\* parentId and no user has it as departmentId.
C26_DeleteGuardUnderInterleaving ==
    [][\A id \in DOMAIN db.department \ DOMAIN db'.department :
            /\ \A k \in DOMAIN db.department : db.department[k].parentId # id
            /\ \A u \in DOMAIN db.user : db.user[u].departmentId # id]_vars

\* The invitation rows of db that pre does not hold unchanged.
C27_New ==
    {k \in DOMAIN db.organizationInvitation :
        \/ k \notin DOMAIN pre.organizationInvitation
        \/ db.organizationInvitation[k] # pre.organizationInvitation[k]}

\* C27: a successful inviteMember adds exactly one invitation and leaves
\* the others as they were; the new row is for the lower-cased email, has
\* status PENDING, the requested role (MEMBER when none is given), and
\* expiresAt = creation time + 7 days.
C27_InvitationContent ==
    call.op = "inviteMember" /\ result.success =>
        /\ C27_New = {<<call.dto.organizationId, ToLowerCase(call.dto.email)>>}
        /\ DOMAIN pre.organizationInvitation \subseteq DOMAIN db.organizationInvitation
        /\ Cardinality(DOMAIN db.organizationInvitation)
                = Cardinality(DOMAIN pre.organizationInvitation) + 1
        /\ \A k \in C27_New :
                LET row == db.organizationInvitation[k]
                IN  /\ row.status = "PENDING"
                    /\ row.role = IF call.dto.role \in OrgRoles
                                  THEN call.dto.role ELSE "MEMBER"
                    /\ row.expiresAt = call.now + 7
                    /\ row.inviterId = call.dto.inviterId

\* An invitation sent at day 1 to an address written in capitals, without
\* a role, was stored.
C27_Witness ==
    /\ call.op = "inviteMember"
    /\ result.success
    /\ call.now = 1
    /\ call.dto.email # ToLowerCase(call.dto.email)
    /\ call.dto.role = UNDEF
    /\ C27_New # {}
    /\ \A k \in C27_New : db.organizationInvitation[k].expiresAt = 8

\* How many times id occurs in the sequence q.
C28_Count(q, id) == Cardinality({i \in 1..Len(q) : q[i] = id})

\* The ids reached from the set R by following children arrays n times.
RECURSIVE C28_Reach(_, _, _)
C28_Reach(children, R, n) ==
    IF n = 0 THEN R
    ELSE C28_Reach(children,
                   R \cup UNION {{children[k][i] : i \in 1..Len(children[k])} :
                                  k \in R},
                   n - 1)

\* C28: for the rows of a store whose parent references are acyclic (and
\* resolve, as the foreign key makes them), getHierarchy returns a forest
\* holding every department exactly once: the roots are the departments
\* with null parentId, every other department is in the children of its
\* parent and nowhere else, and each node's userCount is the number of
\* users whose departmentId is that department.
C28_TreeStructure ==
    call.op = "getDepartmentHierarchy" /\ AcyclicMap(DeptParentOf(db)) =>
        LET t == result.data
            ids == DOMAIN db.department
        IN  /\ DOMAIN t.nodes = ids /\ DOMAIN t.children = ids
            /\ \A k \in ids :
                    /\ C28_Count(t.roots, k)
                            = IF db.department[k].parentId = NULL THEN 1 ELSE 0
                    /\ \A q \in ids :
                            C28_Count(t.children[q], k)
                                = IF db.department[k].parentId = q THEN 1 ELSE 0
                    /\ t.nodes[k].userCount
                            = Cardinality({u \in DOMAIN db.user :
                                                db.user[u].departmentId = k})
            /\ Len(t.roots) = Cardinality({k \in ids : db.department[k].parentId = NULL})
            /\ C28_Reach(t.children, {t.roots[i] : i \in 1..Len(t.roots)},
                         Cardinality(ids)) = ids

\* d1 is a root with child d2, which has child d3; u1 is assigned to d1 and
\* u2 to d2, and d1's node counts one user.
C28_Witness ==
    /\ call.op = "getDepartmentHierarchy"
    /\ DeptParentOf(db) = [k \in {"d1", "d2", "d3"} |->
                              IF k = "d1" THEN NULL ELSE IF k = "d2" THEN "d1" ELSE "d2"]
    /\ db.user["u1"].departmentId = "d1"
    /\ db.user["u2"].departmentId = "d2"
    /\ call.departments[1].id = "d3"
    /\ result.data.roots = <<"d1">>
    /\ result.data.children["d1"] = <<"d2">>
    /\ result.data.nodes["d1"].userCount = 1

\* The name key of the request is present and holds undefined, null, an
\* empty text or white space only.
C29_BlankName ==
    /\ call.dto.name # AbsentT
    /\ \/ call.dto.name \in {UndefT, NullT, <<>>}
       \/ \A i \in 1..Len(call.dto.name) : call.dto.name[i] = " "

\* C29: an updateDepartment without a name key is not refused with
\* REQUIRED_NAME, succeeds on an existing department and leaves its name
\* as it was; an updateDepartment whose name key holds undefined, an empty
\* text or white space fails with REQUIRED_NAME and changes nothing; no
\* stored department has an empty or white-space name.
C29_NameOnPartialUpdate ==
    /\ call.op = "updateDepartment" /\ call.dto.name = AbsentT =>
            /\ result.code # "REQUIRED_NAME"
            /\ call.dto.id \in DOMAIN pre.department =>
                    /\ result.success
                    /\ db.department[call.dto.id].name
                            = pre.department[call.dto.id].name
    /\ call.op = "updateDepartment" /\ C29_BlankName =>
            /\ result = Fail("REQUIRED_NAME")
            /\ db = pre
    /\ \A k \in DOMAIN db.department :
            /\ IsText(db.department[k].name)
            /\ \E i \in 1..Len(db.department[k].name) :
                    db.department[k].name[i] # " "

\* Department d2 was renamed to F, and an update without a name key then
\* changed its description and kept the name F.
C29_Witness ==
    /\ call.op = "updateDepartment"
    /\ call.dto.id = "d2"
    /\ call.dto.name = AbsentT
    /\ result.success
    /\ db # pre
    /\ db.department["d2"].name = <<"F">>

\* C30: with requests served one at a time, every non-null parentId names
\* a stored department and every non-null managerId a stored user; an
\* updateDepartment naming a parent that does not exist fails with
\* PARENT_NOT_FOUND; an updateUser naming a manager that does not exist
\* fails with UPDATE_ERROR; both leave the store as it was.
C30_NoDanglingReference ==
    /\ \A k \in DOMAIN db.department :
            db.department[k].parentId = NULL
                \/ db.department[k].parentId \in DOMAIN db.department
    /\ \A u \in DOMAIN db.user :
            db.user[u].managerId = NULL \/ db.user[u].managerId \in DOMAIN db.user
    /\ (/\ call.op = "updateDepartment"
        /\ ~Falsy(call.dto.parentId)
        /\ call.dto.parentId \notin DOMAIN pre.department)
            => result = Fail("PARENT_NOT_FOUND") /\ db = pre
    /\ (/\ call.op = "updateUser"
        /\ ~Falsy(call.dto.managerId)
        /\ call.dto.managerId # call.dto.id
        /\ call.dto.managerId \notin DOMAIN pre.user)
            => result = Fail("UPDATE_ERROR") /\ db = pre

\* u2, who reports to u1, was sent to a manager that does not exist: the
\* request failed with UPDATE_ERROR and u2 still reports to u1.
C30_Witness ==
    /\ call.op = "updateUser"
    /\ call.dto.id = "u2"
    /\ call.dto.managerId = GHOST
    /\ result = Fail("UPDATE_ERROR")
    /\ db.user["u2"].managerId = "u1"

\* C31: every stored organization's slug is non-empty and made of
\* lower-case letters, digits and hyphens only.
C31_SlugWellFormed ==
    \A o \in DOMAIN db.organization :
        LET slug == db.organization[o].slug
        IN  /\ IsText(slug)
            /\ slug # <<>>
            /\ \A i \in 1..Len(slug) : slug[i] \in LowerCase \cup Digit \cup {"-"}

\* C32: no two stored users have e-mail addresses that are equal when
\* letter case is ignored.
C32_EmailUniqueIgnoringCase ==
    \A u, v \in DOMAIN db.user :
        u # v => ToLowerCase(db.user[u].email) # ToLowerCase(db.user[v].email)

\* C33: updateMemberRole never succeeds in setting a membership that is not
\* OWNER to OWNER when the requester's own role in the organization is ADMIN.
C33_AdminCannotMakeOwner ==
    (/\ call.op = "updateMemberRole"
     /\ call.role = "OWNER"
     /\ <<call.organizationId, call.requesterId>> \in DOMAIN pre.organizationMember
     /\ pre.organizationMember[<<call.organizationId, call.requesterId>>].role = "ADMIN"
     /\ <<call.organizationId, call.userId>> \in DOMAIN pre.organizationMember
     /\ pre.organizationMember[<<call.organizationId, call.userId>>].role # "OWNER")
        => /\ ~result.success
           /\ db.organizationMember[<<call.organizationId, call.userId>>].role # "OWNER"

\* C34: a successful banUser sets banned, banReason, banExpires (the given
\* date or null) and status SUSPENDED; a successful unbanUser sets banned
\* false, banReason and banExpires null and status ACTIVE whatever the status
\* was; nothing else in the store changes, and a failed call changes nothing.
C34_BanUnbanFrame ==
    /\ (call.op = "banUser" /\ result.success) =>
            /\ call.id \in DOMAIN pre.user
            /\ db = [pre EXCEPT !.user[call.id] =
                        [@ EXCEPT !.banned = "true",
                                  !.banReason = call.reason,
                                  !.banExpires = IF call.expiresAt = UNDEF THEN NULL
                                                 ELSE call.expiresAt,
                                  !.status = "SUSPENDED"]]
    /\ (call.op = "unbanUser" /\ result.success) =>
            /\ call.id \in DOMAIN pre.user
            /\ db = [pre EXCEPT !.user[call.id] =
                        [@ EXCEPT !.banned = "false", !.banReason = NullT,
                                  !.banExpires = NULL, !.status = "ACTIVE"]]
    /\ (call.op \in {"banUser", "unbanUser"} /\ ~result.success) => db = pre

\* An inactive user, banned with an expiry and a reason, is unbanned and
\* ends ACTIVE with the ban columns cleared.
C34_Witness ==
    /\ call.op = "unbanUser" /\ result.success
    /\ pre.user[call.id].banned = "true"
    /\ pre.user[call.id].status = "INACTIVE"
    /\ pre.user[call.id].banExpires # NULL
    /\ db.user[call.id].status = "ACTIVE"
    /\ db.user[call.id].banned = "false"
    /\ db.user[call.id].banExpires = NULL

\* The invitation row an inviteMember request is about.
C35_Key == InvitationKey(call.dto.organizationId, call.dto.email)

C36_Born == DOMAIN db.organization \ DOMAIN pre.organization

\* C36: a successful createOrganization(dto, ownerId) adds one organization
\* and exactly one membership of it, (organization, ownerId) with role OWNER,
\* and leaves the other organizations and memberships alone; a failed
\* createOrganization adds neither.
C36_BornWithOwner ==
    /\ (call.op = "createOrganization" /\ result.success) =>
            /\ Cardinality(C36_Born) = 1
            /\ \A o \in DOMAIN pre.organization :
                    o \in DOMAIN db.organization
                        /\ db.organization[o] = pre.organization[o]
            /\ \A o \in C36_Born :
                    /\ {k \in DOMAIN db.organizationMember : k[1] = o}
                            = {<<o, call.ownerId>>}
                    /\ db.organizationMember[<<o, call.ownerId>>].role = "OWNER"
            /\ \A k \in DOMAIN pre.organizationMember :
                    k \in DOMAIN db.organizationMember
                        /\ db.organizationMember[k] = pre.organizationMember[k]
    /\ (call.op = "createOrganization" /\ ~result.success) => db = pre

\* A second organization is created by u2 while the first, owned by u1,
\* exists.
C36_Witness ==
    /\ call.op = "createOrganization" /\ result.success
    /\ call.ownerId = "u2"
    /\ \E o \in DOMAIN pre.organization : <<o, "u1">> \in DOMAIN pre.organizationMember
    /\ \E o \in C36_Born : <<o, "u2">> \in DOMAIN db.organizationMember

=============================================================================
